---- MODULE Spec2Model ----
(***************************************************************************)
(* The DSCP policy program of bpf_progs/dscpPolicy.c as a state machine:   *)
(* the BPF maps are the state, one action is one run of the tc program     *)
(* schedcls_set_dscp_ether on one packet (a BPF program runs to completion *)
(* without suspension), and the control plane writes the policy arrays and *)
(* the map selector from user space.                                       *)
(*                                                                         *)
(* The cgroup programs of bpf_progs/netd.c share the module: their maps    *)
(* are further variables, one action is one run of bpf_cgroup_ingress or   *)
(* bpf_cgroup_egress on one packet, and bpf_owner_match, which only reads, *)
(* is also applied on its own to every owner configuration.                *)
(*                                                                         *)
(* Memory is modelled as the little-endian BPF target sees it: a 16-bit    *)
(* field holds the value the CPU loads, ntohs/htons swap its two bytes, and *)
(* the port number of a wire field is ntohs of it.  An in6_addr is its 16  *)
(* bytes in memory order, an IPv4 address its 4 bytes.                     *)
(***************************************************************************)
EXTENDS Integers, Sequences, FiniteSets, TLC

VARIABLES
    switch_comp_map,                \* value of the one-slot selector array
    ipv4_socket_to_policies_map_A,  \* HASH cookie -> RuleEntry
    ipv4_socket_to_policies_map_B,
    ipv6_socket_to_policies_map_A,
    ipv6_socket_to_policies_map_B,
    ipv4_dscp_policies_map,         \* ARRAY 0..MAX_POLICIES-1 -> DscpPolicy
    ipv6_dscp_policies_map,
    skb_in,                         \* the packet as handed to the program
    skb,                            \* the packet as the program left it
    exit,                           \* where the program returned
    best,                           \* best_score / best_match at return
    ret,                            \* the program's return value
    configuration_map,              \* netd.c: ARRAY slot -> uint32_t
    uid_owner_map,                  \* HASH uid -> UidOwnerValue
    cookie_tag_map,                 \* HASH cookie -> UidTagValue
    uid_counterset_map,             \* HASH uid -> uint8_t
    stats_map_A,                    \* HASH StatsKey -> StatsValue
    stats_map_B,
    app_uid_stats_map,              \* HASH uid -> StatsValue
    cg_skb,                         \* the packet handed to the netd code
    cg_uid,                         \* the uid bpf_owner_match was given
    cg_direction,                   \* BPF_EGRESS or BPF_INGRESS
    cg_match,                       \* what bpf_owner_match returned, if called
    cg_ret,                         \* what bpf_traffic_account returned
    iface_stats_map,                \* HASH ifindex -> StatsValue
    cpu                             \* per CPU: the invocation it is running

vars == <<switch_comp_map, ipv4_socket_to_policies_map_A,
          ipv4_socket_to_policies_map_B, ipv6_socket_to_policies_map_A,
          ipv6_socket_to_policies_map_B, ipv4_dscp_policies_map,
          ipv6_dscp_policies_map, skb_in, skb, exit, best, ret,
          configuration_map, uid_owner_map, cookie_tag_map,
          uid_counterset_map, stats_map_A, stats_map_B, app_uid_stats_map,
          cg_skb, cg_uid, cg_direction, cg_match, cg_ret,
          iface_stats_map, cpu>>

\* the state of the DSCP program
dscp_vars == <<switch_comp_map, ipv4_socket_to_policies_map_A,
               ipv4_socket_to_policies_map_B, ipv6_socket_to_policies_map_A,
               ipv6_socket_to_policies_map_B, ipv4_dscp_policies_map,
               ipv6_dscp_policies_map, skb_in, skb, exit, best, ret>>

\* the state of the netd programs
netd_vars == <<configuration_map, uid_owner_map, cookie_tag_map,
               uid_counterset_map, stats_map_A, stats_map_B,
               app_uid_stats_map, cg_skb, cg_uid, cg_direction, cg_match,
               cg_ret, iface_stats_map, cpu>>

netd_maps == <<configuration_map, uid_owner_map, cookie_tag_map,
               uid_counterset_map>>

stats_maps == <<stats_map_A, stats_map_B, app_uid_stats_map,
                iface_stats_map>>

\* what one run of a program reports
cg_obs == <<cg_skb, cg_uid, cg_direction, cg_match, cg_ret>>

caches == <<ipv4_socket_to_policies_map_A, ipv4_socket_to_policies_map_B,
            ipv6_socket_to_policies_map_A, ipv6_socket_to_policies_map_B>>

(***************************************************************************)
(* Sizes and numbers                                                       *)
(***************************************************************************)
\* Entries of each policy array and of each socket hash map.  The program
\* uses the one macro for both; the model keeps it small.
MAX_POLICIES == 2

MAP_A == 1
MAP_B == 2
SRC_IP_MASK_FLAG == 1
DST_IP_MASK_FLAG == 2
SRC_PORT_MASK_FLAG == 4
DST_PORT_MASK_FLAG == 8
PROTO_MASK_FLAG == 16

ECN_MASK == 3
SIZEOF_ETHHDR == 14
SIZEOF_IPHDR == 20
SIZEOF_IPV6HDR == 40
SIZEOF_UDPHDR == 8
SIZEOF_TCPHDR == 20
IPPROTO_TCP == 6
IPPROTO_UDP == 17
IPPROTO_UDPLITE == 136
ETH_P_IP == 2048
ETH_P_IPV6 == 34525
PACKET_HOST == 0
TC_ACT_PIPE == 3

(***************************************************************************)
(* Integer helpers of the C code                                           *)
(***************************************************************************)
U8(x) == x % 256

Bswap16(x) == (x % 256) * 256 + (x \div 256)

ntohs(x) == Bswap16(x)

htons(x) == Bswap16(x)

\* (mask & flag) == flag, for a flag of one bit
HasFlag(mask, flag) == (mask \div flag) % 2 = 1

B2I(b) == IF b THEN 1 ELSE 0

\* 16-bit one's complement sum with end-around carry (csum16_add)
csum16_add(a, b) == LET res == (a + b) % 65536 IN (res + B2I(res < b)) % 65536

\* bpf_l3_csum_replace(skb, off, from, to, 2): the 16-bit checksum at off
\* after the 16-bit word from was replaced by to
bpf_l3_csum_replace(check, from, to) ==
    65535 - csum16_add(csum16_add(65535 - check, 65535 - from), to)

v6_equal(a, b) == a = b

\* variant: the ECN bits are cleared
UPDATE_TOS_clears_ecn(dscp, tos) == U8(dscp * 4)

UPDATE_TOS(dscp, tos) == U8(dscp * 4 + (tos % (ECN_MASK + 1)))

UPDATE_PRIORITY(dscp) == U8((dscp \div 4) + 96)

UPDATE_FLOW_LABEL(dscp, flow_lbl) == U8((dscp % 16) * 64 + (flow_lbl \div 64))

(***************************************************************************)
(* Header parsing: match_policy up to the switch on the protocol           *)
(***************************************************************************)
\* first byte of the IP header: version in the high nibble
HdrVersion(p) == p.b0 \div 16

\* iphdr.ihl, ipv6hdr.priority: the low nibble of the first byte
HdrLowNibble(p) == p.b0 % 16

\* variant: word 2 left zero
V4Mapped_word2_zero(addr) == <<0, 0, 0, 0, 0, 0, 0, 0, 0, 0, 0, 0>> \o addr

\* in6_addr of an IPv4 address: words 0 and 1 zero, word 2 htonl(0x0000ffff)
V4Mapped(addr) == <<0, 0, 0, 0, 0, 0, 0, 0, 0, 0, 255, 255>> \o addr

l2_header_size(is_eth) == IF is_eth THEN SIZEOF_ETHHDR ELSE 0

L3HeaderSize(ipv4) == IF ipv4 THEN SIZEOF_IPHDR ELSE SIZEOF_IPV6HDR

\* the switch on protocol: the transport header that must fit, 0 for default
L4HeaderSize(protocol) ==
    IF protocol = IPPROTO_UDP \/ protocol = IPPROTO_UDPLITE THEN SIZEOF_UDPHDR
    ELSE IF protocol = IPPROTO_TCP THEN SIZEOF_TCPHDR
    ELSE 0

\* variant: the test of the IPv4 header length left out
ExtractTuple_options_ok(p, ipv4, is_eth) ==
    LET hdr_size == l2_header_size(is_eth) + L3HeaderSize(ipv4) IN
    IF l2_header_size(is_eth) > p.len THEN [at |-> "no_l2_header"]
    ELSE IF p.cookie = 0 THEN [at |-> "no_cookie"]
    ELSE IF hdr_size > p.len THEN [at |-> "no_ip_header"]
    ELSE IF HdrVersion(p) # (IF ipv4 THEN 4 ELSE 6) THEN [at |-> "bad_version"]
    ELSE IF L4HeaderSize(p.l4proto) = 0 THEN [at |-> "other_protocol"]
    ELSE IF hdr_size + L4HeaderSize(p.l4proto) > p.len
         THEN [at |-> "no_l4_header"]
    ELSE [at       |-> "lookup",
          src_ip   |-> IF ipv4 THEN V4Mapped(p.saddr) ELSE p.saddr,
          dst_ip   |-> IF ipv4 THEN V4Mapped(p.daddr) ELSE p.daddr,
          sport    |-> p.sport,
          dport    |-> p.dport,
          protocol |-> p.l4proto,
          tos      |-> IF ipv4 THEN p.b1 ELSE 0,
          priority |-> IF ipv4 THEN 0 ELSE HdrLowNibble(p),
          flow_lbl |-> IF ipv4 THEN 0 ELSE p.b1]

\* The locals match_policy has gathered when it reaches the cache lookup, or
\* the return it took before.
ExtractTuple(p, ipv4, is_eth) ==
    LET hdr_size == l2_header_size(is_eth) + L3HeaderSize(ipv4) IN
    IF l2_header_size(is_eth) > p.len THEN [at |-> "no_l2_header"]
    ELSE IF p.cookie = 0 THEN [at |-> "no_cookie"]
    ELSE IF hdr_size > p.len THEN [at |-> "no_ip_header"]
    ELSE IF HdrVersion(p) # (IF ipv4 THEN 4 ELSE 6) THEN [at |-> "bad_version"]
    ELSE IF ipv4 /\ HdrLowNibble(p) # 5 THEN [at |-> "ip_options"]
    ELSE IF L4HeaderSize(p.l4proto) = 0 THEN [at |-> "other_protocol"]
    ELSE IF hdr_size + L4HeaderSize(p.l4proto) > p.len
         THEN [at |-> "no_l4_header"]
    ELSE [at       |-> "lookup",
          src_ip   |-> IF ipv4 THEN V4Mapped(p.saddr) ELSE p.saddr,
          dst_ip   |-> IF ipv4 THEN V4Mapped(p.daddr) ELSE p.daddr,
          sport    |-> p.sport,
          dport    |-> p.dport,
          protocol |-> p.l4proto,
          tos      |-> IF ipv4 THEN p.b1 ELSE 0,
          priority |-> IF ipv4 THEN 0 ELSE HdrLowNibble(p),
          flow_lbl |-> IF ipv4 THEN 0 ELSE p.b1]

(***************************************************************************)
(* The socket cache                                                        *)
(***************************************************************************)
\* variant: a full map makes room by dropping an entry, as an LRU map does
bpf_map_update_elem_evicts(map, key, value) ==
    IF key \in DOMAIN map THEN [map EXCEPT ![key] = value]
    ELSE IF Cardinality(DOMAIN map) < MAX_POLICIES
         THEN [k \in DOMAIN map \cup {key} |-> IF k = key THEN value ELSE map[k]]
    ELSE LET old == CHOOSE k \in DOMAIN map : TRUE IN
         [k \in (DOMAIN map \ {old}) \cup {key} |->
             IF k = key THEN value ELSE map[k]]

\* bpf_map_update_elem(map, key, value, BPF_ANY) on a HASH map of
\* MAX_POLICIES entries: a present key is overwritten, an absent key is
\* inserted while there is room, and the update fails (the map is left as it
\* is) when the map is full.
bpf_map_update_elem(map, key, value) ==
    IF key \in DOMAIN map THEN [map EXCEPT ![key] = value]
    ELSE IF Cardinality(DOMAIN map) < MAX_POLICIES
         THEN [k \in DOMAIN map \cup {key} |-> IF k = key THEN value ELSE map[k]]
    ELSE map

\* variant: the source port is not compared
CacheMatches_no_sport(existing_rule, t, ifindex) ==
    /\ v6_equal(t.src_ip, existing_rule.src_ip)
    /\ v6_equal(t.dst_ip, existing_rule.dst_ip)
    /\ ifindex = existing_rule.ifindex
    /\ ntohs(t.dport) = htons(existing_rule.dst_port)
    /\ t.protocol = existing_rule.proto

\* the condition under which match_policy trusts the cached entry
CacheMatches(existing_rule, t, ifindex) ==
    /\ v6_equal(t.src_ip, existing_rule.src_ip)
    /\ v6_equal(t.dst_ip, existing_rule.dst_ip)
    /\ ifindex = existing_rule.ifindex
    /\ ntohs(t.sport) = htons(existing_rule.src_port)
    /\ ntohs(t.dport) = htons(existing_rule.dst_port)
    /\ t.protocol = existing_rule.proto

(***************************************************************************)
(* The linear scan of the policy array                                     *)
(***************************************************************************)
SrcIpMatches(policy, t) ==
    /\ HasFlag(policy.present_fields, SRC_IP_MASK_FLAG)
    /\ v6_equal(t.src_ip, policy.src_ip)

DstIpMatches(policy, t) ==
    /\ HasFlag(policy.present_fields, DST_IP_MASK_FLAG)
    /\ v6_equal(t.dst_ip, policy.dst_ip)

SrcPortMatches(policy, t) ==
    /\ HasFlag(policy.present_fields, SRC_PORT_MASK_FLAG)
    /\ ntohs(t.sport) = htons(policy.src_port)

\* variant: the bounds compared as loaded, without the byte swaps
DstPortMatches_raw(policy, t) ==
    /\ HasFlag(policy.present_fields, DST_PORT_MASK_FLAG)
    /\ t.dport >= policy.dst_port_start
    /\ t.dport <= policy.dst_port_end

DstPortMatches(policy, t) ==
    /\ HasFlag(policy.present_fields, DST_PORT_MASK_FLAG)
    /\ ntohs(t.dport) >= htons(policy.dst_port_start)
    /\ ntohs(t.dport) <= htons(policy.dst_port_end)

ProtoMatches(policy, t) ==
    /\ HasFlag(policy.present_fields, PROTO_MASK_FLAG)
    /\ t.protocol = policy.proto

\* score after the five tests on one policy
PolicyScore(policy, t) ==
    B2I(SrcIpMatches(policy, t)) + B2I(DstIpMatches(policy, t))
    + B2I(SrcPortMatches(policy, t)) + B2I(DstPortMatches(policy, t))
    + B2I(ProtoMatches(policy, t))

\* temp_mask after the five tests on one policy
PolicyTempMask(policy, t) ==
    SRC_IP_MASK_FLAG * B2I(SrcIpMatches(policy, t))
    + DST_IP_MASK_FLAG * B2I(DstIpMatches(policy, t))
    + SRC_PORT_MASK_FLAG * B2I(SrcPortMatches(policy, t))
    + DST_PORT_MASK_FLAG * B2I(DstPortMatches(policy, t))
    + PROTO_MASK_FLAG * B2I(ProtoMatches(policy, t))

\* variant: a zero mask does not skip the slot
PolicySkipped_keeps_zero_mask(policy, ifindex) ==
    policy.ifindex # ifindex

\* variant: another interface's policy is not skipped
PolicySkipped_any_interface(policy, ifindex) ==
    policy.present_fields = 0

\* the continue at the head of the loop body
PolicySkipped(policy, ifindex) ==
    policy.present_fields = 0 \/ policy.ifindex # ifindex

\* variant: >= in place of >, the last of equal scores wins
PolicyTaken_last_wins(policy, t, b) ==
    /\ PolicyScore(policy, t) >= b.score
    /\ PolicyTempMask(policy, t) = policy.present_fields

\* variant: the mask comparison left out
PolicyTaken_partial(policy, t, b) ==
    PolicyScore(policy, t) > b.score

\* the test that makes policy i the best match so far
PolicyTaken(policy, t, b) ==
    /\ PolicyScore(policy, t) > b.score
    /\ PolicyTempMask(policy, t) = policy.present_fields

RECURSIVE ScanPolicies(_, _, _, _, _)
\* variant: the loop ends one slot early
RECURSIVE ScanPolicies_short(_, _, _, _, _)
ScanPolicies_short(table, t, ifindex, i, b) ==
    IF i >= MAX_POLICIES - 1 THEN b
    ELSE IF PolicySkipped(table[i], ifindex)
         THEN ScanPolicies_short(table, t, ifindex, i + 1, b)
    ELSE IF PolicyTaken(table[i], t, b)
         THEN ScanPolicies_short(table, t, ifindex, i + 1,
                                 [score |-> PolicyScore(table[i], t), match |-> i])
    ELSE ScanPolicies_short(table, t, ifindex, i + 1, b)

\* the loop from iteration i on, b holding best_score and best_match
ScanPolicies(table, t, ifindex, i, b) ==
    IF i >= MAX_POLICIES THEN b
    ELSE IF PolicySkipped(table[i], ifindex)
         THEN ScanPolicies(table, t, ifindex, i + 1, b)
    ELSE IF PolicyTaken(table[i], t, b)
         THEN ScanPolicies(table, t, ifindex, i + 1,
                           [score |-> PolicyScore(table[i], t), match |-> i])
    ELSE ScanPolicies(table, t, ifindex, i + 1, b)

NoBest == [score |-> -1, match |-> 0]

\* variant: the return for no match left out
PolicyFound_always(b) == TRUE

\* the test after the loop that a policy was chosen
PolicyFound(b) == b.score > 0

(***************************************************************************)
(* Writing the mark into the packet                                        *)
(***************************************************************************)
\* lines 161-171: the stores of the cache-hit path
StoreCachedMark(p, ipv4, t, dscp_val) ==
    IF ipv4
    THEN [p EXCEPT !.check = bpf_l3_csum_replace(p.check, htons(t.tos),
                                                 htons(UPDATE_TOS(dscp_val, t.tos))),
                   !.b1 = UPDATE_TOS(dscp_val, t.tos)]
    ELSE [p EXCEPT !.b0 = UPDATE_PRIORITY(dscp_val),
                   !.b1 = UPDATE_FLOW_LABEL(dscp_val, t.flow_lbl)]

\* lines 243-249 and 280-286: the stores after a policy was chosen
StorePolicyMark(p, ipv4, t, new_dscp) ==
    LET new_tos      == UPDATE_TOS(new_dscp, t.tos)
        new_priority == UPDATE_PRIORITY(new_dscp)
        new_flow_lbl == UPDATE_FLOW_LABEL(new_dscp, t.flow_lbl)
    IN  IF ipv4 /\ new_tos # t.tos - (t.tos % 4)
        THEN [p EXCEPT !.check = bpf_l3_csum_replace(p.check, htons(t.tos),
                                                     htons(new_tos)),
                       !.b1 = new_tos]
        ELSE IF ~ipv4 /\ (new_priority # t.priority \/ new_flow_lbl # t.flow_lbl)
        THEN [p EXCEPT !.b0 = new_priority, !.b1 = new_flow_lbl]
        ELSE p

\* lines 254-262: the entry written to the socket cache
NewRuleEntry(p, t, new_dscp) ==
    [src_ip   |-> t.src_ip,
     dst_ip   |-> t.dst_ip,
     ifindex  |-> p.ifindex,
     src_port |-> t.sport,
     dst_port |-> t.dport,
     proto    |-> t.protocol,
     dscp_val |-> new_dscp]

(***************************************************************************)
(* match_policy                                                            *)
(***************************************************************************)
\* the socket map the selector names, for the family
SelectedSocketMap(ipv4) ==
    IF ipv4
    THEN IF switch_comp_map = MAP_A THEN ipv4_socket_to_policies_map_A
                                    ELSE ipv4_socket_to_policies_map_B
    ELSE IF switch_comp_map = MAP_A THEN ipv6_socket_to_policies_map_A
                                    ELSE ipv6_socket_to_policies_map_B

PolicyTable(ipv4) ==
    IF ipv4 THEN ipv4_dscp_policies_map ELSE ipv6_dscp_policies_map

\* What one call does: where it returns (at), the packet it leaves, the
\* content it leaves in the selected socket map, best_score and best_match.
match_policy(p, ipv4, is_eth) ==
    LET t     == ExtractTuple(p, ipv4, is_eth)
        cache == SelectedSocketMap(ipv4)
        table == PolicyTable(ipv4)
    IN  IF t.at # "lookup"
        THEN [at |-> t.at, skb |-> p, cache |-> cache, best |-> NoBest]
        ELSE IF p.cookie \in DOMAIN cache
                /\ CacheMatches(cache[p.cookie], t, p.ifindex)
        THEN [at    |-> "cache_hit",
              skb   |-> StoreCachedMark(p, ipv4, t, cache[p.cookie].dscp_val),
              cache |-> cache,
              best  |-> NoBest]
        ELSE LET b == ScanPolicies(table, t, p.ifindex, 0, NoBest) IN
             IF PolicyFound(b)
             THEN [at    |-> "matched",
                   skb   |-> StorePolicyMark(p, ipv4, t, table[b.match].dscp_val),
                   cache |-> bpf_map_update_elem(cache, p.cookie,
                                 NewRuleEntry(p, t, table[b.match].dscp_val)),
                   best  |-> b]
             ELSE [at |-> "no_match", skb |-> p, cache |-> cache, best |-> b]

\* the effect of a call on the state
Returned(r, ipv4) ==
    /\ exit' = r.at
    /\ skb' = r.skb
    /\ best' = r.best
    /\ ipv4_socket_to_policies_map_A' =
           IF ipv4 /\ switch_comp_map = MAP_A
           THEN r.cache ELSE ipv4_socket_to_policies_map_A
    /\ ipv4_socket_to_policies_map_B' =
           IF ipv4 /\ switch_comp_map # MAP_A
           THEN r.cache ELSE ipv4_socket_to_policies_map_B
    /\ ipv6_socket_to_policies_map_A' =
           IF ~ipv4 /\ switch_comp_map = MAP_A
           THEN r.cache ELSE ipv6_socket_to_policies_map_A
    /\ ipv6_socket_to_policies_map_B' =
           IF ~ipv4 /\ switch_comp_map # MAP_A
           THEN r.cache ELSE ipv6_socket_to_policies_map_B

\* the program's returns that never call match_policy
NotClassified(p, where) ==
    /\ exit' = where
    /\ skb' = p
    /\ best' = NoBest
    /\ UNCHANGED caches

(***************************************************************************)
(* The tc program, one packet                                              *)
(***************************************************************************)
\* variant: a frame no policy matches is dropped (TC_ACT_SHOT)
schedcls_set_dscp_ether_shot_when_unmatched(p) ==
    /\ skb_in' = p
    /\ IF p.pkt_type # PACKET_HOST
       THEN NotClassified(p, "not_host") /\ ret' = <<TC_ACT_PIPE>>
       ELSE IF p.protocol = htons(ETH_P_IP)
            THEN /\ Returned(match_policy(p, TRUE, TRUE), TRUE)
                 /\ ret' = IF match_policy(p, TRUE, TRUE).at = "no_match"
                           THEN <<2>> ELSE <<TC_ACT_PIPE>>
       ELSE IF p.protocol = htons(ETH_P_IPV6)
            THEN /\ Returned(match_policy(p, FALSE, TRUE), FALSE)
                 /\ ret' = IF match_policy(p, FALSE, TRUE).at = "no_match"
                           THEN <<2>> ELSE <<TC_ACT_PIPE>>
       ELSE NotClassified(p, "not_ip") /\ ret' = <<TC_ACT_PIPE>>
    /\ UNCHANGED <<switch_comp_map, ipv4_dscp_policies_map,
                   ipv6_dscp_policies_map>>
    /\ UNCHANGED netd_vars

schedcls_set_dscp_ether(p) ==
    /\ skb_in' = p
    /\ ret' = <<TC_ACT_PIPE>>
    /\ IF p.pkt_type # PACKET_HOST THEN NotClassified(p, "not_host")
       ELSE IF p.protocol = htons(ETH_P_IP)
            THEN Returned(match_policy(p, TRUE, TRUE), TRUE)
       ELSE IF p.protocol = htons(ETH_P_IPV6)
            THEN Returned(match_policy(p, FALSE, TRUE), FALSE)
       ELSE NotClassified(p, "not_ip")
    /\ UNCHANGED <<switch_comp_map, ipv4_dscp_policies_map,
                   ipv6_dscp_policies_map>>
    /\ UNCHANGED netd_vars

(***************************************************************************)
(* The control plane: user space flips the selector (the maps are group    *)
(* read-write); the policy arrays are provisioned before traffic arrives   *)
(***************************************************************************)
SwitchMap(v) ==
    /\ switch_comp_map # v
    /\ switch_comp_map' = v
    /\ UNCHANGED <<caches, ipv4_dscp_policies_map, ipv6_dscp_policies_map,
                   skb_in, skb, exit, best, ret>>
    /\ UNCHANGED netd_vars

(***************************************************************************)
(* netd.c: numbers                                                         *)
(***************************************************************************)
BPF_DROP_UNLESS_DNS == 2
BPF_PASS == 1
BPF_DROP == 0
BPF_NOMATCH == 0
BPF_MATCH == 1
BPF_EGRESS == 0
BPF_INGRESS == 1

IP_PROTO_OFF == 9
IPV6_PROTO_OFF == 6
IPPROTO_IHL_OFF == 0
TCP_FLAG_OFF == 13
RST_OFFSET == 2
IPPROTO_ESP == 50
MTU == 1500
TCP_OPTION_BYTES == 12

\* 0xFFFFFF82 as its two 16-bit halves, high half first; a tag is only
\* compared for equality and against zero
TAG_SYSTEM_DNS == <<65535, 65410>>

NoTag == <<0, 0>>

\* uids of android_filesystem_config.h; AID_APP_START is the first
\* application uid
AID_APP_START == 10000
AID_CLAT == 1029
AID_DNS == 1051
AID_SYSTEM == 1000

\* UidOwnerMatchType: one bit per restriction category
HAPPY_BOX_MATCH == 1
PENALTY_BOX_MATCH == 2
DOZABLE_MATCH == 4
STANDBY_MATCH == 8
POWERSAVE_MATCH == 16
RESTRICTED_MATCH == 32
LOW_POWER_STANDBY_MATCH == 64
IIF_MATCH == 128
LOCKDOWN_VPN_MATCH == 256
OEM_DENY_1_MATCH == 512
OEM_DENY_2_MATCH == 1024
OEM_DENY_3_MATCH == 2048

\* slots of configuration_map and the values of the stats selector
UID_RULES_CONFIGURATION_KEY == 0
CURRENT_STATS_MAP_CONFIGURATION_KEY == 1
SELECT_MAP_A == 0
SELECT_MAP_B == 1
DEFAULT_CONFIG == 0

\* entries of stats_map_A / stats_map_B and of app_uid_stats_map; the
\* model keeps them small
STATS_MAP_SIZE == 4
APP_STATS_MAP_SIZE == 3
IFACE_STATS_MAP_SIZE == 2

(***************************************************************************)
(* netd.c: map helpers                                                     *)
(***************************************************************************)
\* bpf_<map>_lookup_elem: the value in a one-element tuple, <<>> for NULL
bpf_map_lookup_elem(map, key) ==
    IF key \in DOMAIN map THEN <<map[key]>> ELSE <<>>

\* variant: the map takes entries beyond its size
bpf_map_update_elem_unbounded(map, size, key, value) ==
    IF key \in DOMAIN map THEN map
    ELSE [k \in DOMAIN map \cup {key} |-> IF k = key THEN value ELSE map[k]]

\* variant: BPF_ANY, the value replaces an existing entry
bpf_map_update_elem_any(map, size, key, value) ==
    IF key \notin DOMAIN map /\ Cardinality(DOMAIN map) >= size THEN map
    ELSE [k \in DOMAIN map \cup {key} |-> IF k = key THEN value ELSE map[k]]

\* bpf_<map>_update_elem(key, value, BPF_NOEXIST) on a HASH map of size
\* entries: fails, leaving the map as it was, when the key exists or the
\* map is full
bpf_map_update_elem_noexist(map, size, key, value) ==
    IF key \in DOMAIN map THEN map
    ELSE IF Cardinality(DOMAIN map) >= size THEN map
    ELSE [k \in DOMAIN map \cup {key} |-> IF k = key THEN value ELSE map[k]]

\* bpf_skb_load_bytes(skb, offset, &byte, 1): fails past the packet's end
bpf_skb_load_bytes(p, offset) ==
    IF offset + 1 > p.len THEN <<>>
    ELSE IF offset \in DOMAIN p.data THEN <<p.data[offset]>>
    ELSE <<0>>

\* variant: the last system uid is taken for an application
is_system_uid_below_nobody(uid) == uid < AID_APP_START - 1

\* lines 84-88
is_system_uid(uid) == uid < AID_APP_START

(***************************************************************************)
(* netd.c: DEFINE_UPDATE_STATS                                             *)
(***************************************************************************)
StatsValueZero == [rxPackets |-> 0, rxBytes |-> 0, txPackets |-> 0, txBytes |-> 0]

\* variant: the number of packets is rounded down
StatsDelta_rounds_down(p) ==
    LET bytes        == p.len
        is_ipv6      == p.protocol = htons(ETH_P_IPV6)
        ip_overhead  == IF is_ipv6 THEN SIZEOF_IPV6HDR ELSE SIZEOF_IPHDR
        tcp_overhead == ip_overhead + SIZEOF_TCPHDR + TCP_OPTION_BYTES
        mss          == MTU - tcp_overhead
        payload      == bytes - tcp_overhead
        packets      == payload \div mss
    IN  IF bytes > MTU
        THEN [packets |-> packets, bytes |-> tcp_overhead * packets + payload]
        ELSE [packets |-> 1, bytes |-> bytes]

\* lines 127-138: packets and bytes one update adds
StatsDelta(p) ==
    LET bytes        == p.len
        is_ipv6      == p.protocol = htons(ETH_P_IPV6)
        ip_overhead  == IF is_ipv6 THEN SIZEOF_IPV6HDR ELSE SIZEOF_IPHDR
        tcp_overhead == ip_overhead + SIZEOF_TCPHDR + TCP_OPTION_BYTES
        mss          == MTU - tcp_overhead
        payload      == bytes - tcp_overhead
        packets      == (payload + mss - 1) \div mss
    IN  IF bytes > MTU
        THEN [packets |-> packets, bytes |-> tcp_overhead * packets + payload]
        ELSE [packets |-> 1, bytes |-> bytes]

\* variant: egress is added to the receive counters and ingress to the
\* transmit counters
StatsAdd_directions_swapped(value, p, direction) ==
    LET d == StatsDelta(p)
    IN  IF direction = BPF_INGRESS
        THEN [value EXCEPT !.txPackets = @ + d.packets, !.txBytes = @ + d.bytes]
        ELSE IF direction = BPF_EGRESS
        THEN [value EXCEPT !.rxPackets = @ + d.packets, !.rxBytes = @ + d.bytes]
        ELSE value

\* lines 139-145: the four atomic additions
StatsAdd(value, p, direction) ==
    LET d == StatsDelta(p)
    IN  IF direction = BPF_EGRESS
        THEN [value EXCEPT !.txPackets = @ + d.packets, !.txBytes = @ + d.bytes]
        ELSE IF direction = BPF_INGRESS
        THEN [value EXCEPT !.rxPackets = @ + d.packets, !.rxBytes = @ + d.bytes]
        ELSE value

\* lines 117-147: update_<the_stats_map>(skb, direction, key) on a map of
\* size entries, run without interruption
update_stats(map, size, p, direction, key) ==
    LET created == IF key \in DOMAIN map THEN map
                   ELSE bpf_map_update_elem_noexist(map, size, key, StatsValueZero)
    IN  IF key \in DOMAIN created
        THEN [created EXCEPT ![key] = StatsAdd(@, p, direction)]
        ELSE created

(***************************************************************************)
(* netd.c: bpf_owner_match                                                 *)
(***************************************************************************)
\* variant: only ESP skips the owner match
skip_owner_match_esp_only(p) ==
    IF p.protocol = htons(ETH_P_IP)
    THEN LET proto == bpf_skb_load_bytes(p, IP_PROTO_OFF) IN
         proto # <<>> /\ proto[1] = IPPROTO_ESP
    ELSE IF p.protocol = htons(ETH_P_IPV6)
    THEN LET proto == bpf_skb_load_bytes(p, IPV6_PROTO_OFF) IN
         proto # <<>> /\ proto[1] = IPPROTO_ESP
    ELSE FALSE

\* lines 154-191: ESP and TCP RST packets skip the owner match
skip_owner_match(p) ==
    IF p.protocol = htons(ETH_P_IP)
    THEN LET proto == bpf_skb_load_bytes(p, IP_PROTO_OFF) IN
         IF proto = <<>> THEN FALSE
         ELSE IF proto[1] = IPPROTO_ESP THEN TRUE
         ELSE IF proto[1] = IPPROTO_TCP
         THEN LET ihl  == bpf_skb_load_bytes(p, IPPROTO_IHL_OFF)[1] % 16
                  flag == bpf_skb_load_bytes(p, ihl * 4 + TCP_FLAG_OFF)
              IN  flag # <<>> /\ HasFlag(flag[1], 2 ^ RST_OFFSET)
         ELSE FALSE
    ELSE IF p.protocol = htons(ETH_P_IPV6)
    THEN LET proto == bpf_skb_load_bytes(p, IPV6_PROTO_OFF) IN
         IF proto = <<>> THEN FALSE
         ELSE IF proto[1] = IPPROTO_ESP THEN TRUE
         ELSE IF proto[1] = IPPROTO_TCP
         THEN LET flag == bpf_skb_load_bytes(p, SIZEOF_IPV6HDR + TCP_FLAG_OFF)
              IN  flag # <<>> /\ HasFlag(flag[1], 2 ^ RST_OFFSET)
         ELSE FALSE
    ELSE FALSE

\* variant: an unreadable slot enables every category
getConfig_missing_enables_all(configKey) ==
    LET config == bpf_map_lookup_elem(configuration_map, configKey)
    IN  IF config = <<>> THEN 4095 ELSE config[1]

\* lines 193-201
getConfig(configKey) ==
    LET config == bpf_map_lookup_elem(configuration_map, configKey)
    IN  IF config = <<>> THEN DEFAULT_CONFIG ELSE config[1]

\* variant: an unknown owner is exempt from the four allow-list categories
OwnerRules_unknown_is_exempt(uidEntry) ==
    IF uidEntry # <<>> THEN uidEntry[1].rule
    ELSE DOZABLE_MATCH + POWERSAVE_MATCH + RESTRICTED_MATCH + LOW_POWER_STANDBY_MATCH

\* line 211: uidRules
OwnerRules(uidEntry) == IF uidEntry # <<>> THEN uidEntry[1].rule ELSE 0

\* line 212: allowed_iif
OwnerIif(uidEntry) == IF uidEntry # <<>> THEN uidEntry[1].iif ELSE 0

\* lines 215, 221, 224, 227: (enabledRules & M) && !(uidRules & M)
AllowListDrops(enabledRules, uidRules, match) ==
    HasFlag(enabledRules, match) /\ ~HasFlag(uidRules, match)

\* variant: the owner's bit alone drops
DenyListDrops_unconditional(enabledRules, uidRules, match) ==
    HasFlag(uidRules, match)

\* lines 218, 230, 233, 236: (enabledRules & M) && (uidRules & M)
DenyListDrops(enabledRules, uidRules, match) ==
    HasFlag(enabledRules, match) /\ HasFlag(uidRules, match)

\* variant: the low-power-standby test is left out
RulesDrop_without_low_power_standby(enabledRules, uidRules) ==
    /\ enabledRules # 0
    /\ \/ AllowListDrops(enabledRules, uidRules, DOZABLE_MATCH)
       \/ DenyListDrops(enabledRules, uidRules, STANDBY_MATCH)
       \/ AllowListDrops(enabledRules, uidRules, POWERSAVE_MATCH)
       \/ AllowListDrops(enabledRules, uidRules, RESTRICTED_MATCH)
       \/ DenyListDrops(enabledRules, uidRules, OEM_DENY_1_MATCH)
       \/ DenyListDrops(enabledRules, uidRules, OEM_DENY_2_MATCH)
       \/ DenyListDrops(enabledRules, uidRules, OEM_DENY_3_MATCH)

\* variant: the OEM-deny-3 test is left out
RulesDrop_without_oem_deny_3(enabledRules, uidRules) ==
    /\ enabledRules # 0
    /\ \/ AllowListDrops(enabledRules, uidRules, DOZABLE_MATCH)
       \/ DenyListDrops(enabledRules, uidRules, STANDBY_MATCH)
       \/ AllowListDrops(enabledRules, uidRules, POWERSAVE_MATCH)
       \/ AllowListDrops(enabledRules, uidRules, RESTRICTED_MATCH)
       \/ AllowListDrops(enabledRules, uidRules, LOW_POWER_STANDBY_MATCH)
       \/ DenyListDrops(enabledRules, uidRules, OEM_DENY_1_MATCH)
       \/ DenyListDrops(enabledRules, uidRules, OEM_DENY_2_MATCH)

\* lines 214-239: some category returns BPF_DROP
RulesDrop(enabledRules, uidRules) ==
    /\ enabledRules # 0
    /\ \/ AllowListDrops(enabledRules, uidRules, DOZABLE_MATCH)
       \/ DenyListDrops(enabledRules, uidRules, STANDBY_MATCH)
       \/ AllowListDrops(enabledRules, uidRules, POWERSAVE_MATCH)
       \/ AllowListDrops(enabledRules, uidRules, RESTRICTED_MATCH)
       \/ AllowListDrops(enabledRules, uidRules, LOW_POWER_STANDBY_MATCH)
       \/ DenyListDrops(enabledRules, uidRules, OEM_DENY_1_MATCH)
       \/ DenyListDrops(enabledRules, uidRules, OEM_DENY_2_MATCH)
       \/ DenyListDrops(enabledRules, uidRules, OEM_DENY_3_MATCH)

\* variant: an allowed interface of 0 is an interface like any other
InterfaceVerdict_no_wildcard(direction, ifindex, uidRules, allowed_iif) ==
    IF direction = BPF_INGRESS /\ ifindex # 1
    THEN IF HasFlag(uidRules, IIF_MATCH)
         THEN IF ifindex # allowed_iif
              THEN BPF_DROP_UNLESS_DNS ELSE BPF_PASS
         ELSE IF HasFlag(uidRules, LOCKDOWN_VPN_MATCH)
              THEN BPF_DROP_UNLESS_DNS ELSE BPF_PASS
    ELSE BPF_PASS

\* variant: the lockdown bit is tested before the interface bit
InterfaceVerdict_lockdown_first(direction, ifindex, uidRules, allowed_iif) ==
    IF direction = BPF_INGRESS /\ ifindex # 1
    THEN IF HasFlag(uidRules, LOCKDOWN_VPN_MATCH)
         THEN BPF_DROP_UNLESS_DNS
         ELSE IF HasFlag(uidRules, IIF_MATCH)
                 /\ allowed_iif # 0 /\ ifindex # allowed_iif
              THEN BPF_DROP_UNLESS_DNS ELSE BPF_PASS
    ELSE BPF_PASS

\* lines 240-253
InterfaceVerdict(direction, ifindex, uidRules, allowed_iif) ==
    IF direction = BPF_INGRESS /\ ifindex # 1
    THEN IF HasFlag(uidRules, IIF_MATCH)
         THEN IF allowed_iif # 0 /\ ifindex # allowed_iif
              THEN BPF_DROP_UNLESS_DNS ELSE BPF_PASS
         ELSE IF HasFlag(uidRules, LOCKDOWN_VPN_MATCH)
              THEN BPF_DROP_UNLESS_DNS ELSE BPF_PASS
    ELSE BPF_PASS

\* lines 203-254
bpf_owner_match(p, uid, direction) ==
    IF skip_owner_match(p) THEN BPF_PASS
    ELSE IF is_system_uid(uid) THEN BPF_PASS
    ELSE LET enabledRules == getConfig(UID_RULES_CONFIGURATION_KEY)
             uidEntry     == bpf_map_lookup_elem(uid_owner_map, uid)
             uidRules     == OwnerRules(uidEntry)
             allowed_iif  == OwnerIif(uidEntry)
         IN  IF RulesDrop(enabledRules, uidRules) THEN BPF_DROP
             ELSE InterfaceVerdict(direction, p.ifindex, uidRules, allowed_iif)

(***************************************************************************)
(* netd.c: bpf_traffic_account                                             *)
(***************************************************************************)
\* lines 256-263
update_stats_with_config(maps, p, direction, key, selectedMap) ==
    IF selectedMap = SELECT_MAP_A
    THEN [maps EXCEPT !.A = update_stats(maps.A, STATS_MAP_SIZE, p, direction, key)]
    ELSE IF selectedMap = SELECT_MAP_B
    THEN [maps EXCEPT !.B = update_stats(maps.B, STATS_MAP_SIZE, p, direction, key)]
    ELSE maps

\* variant: the DNS tag alone exempts
ResolveMatch_tag_only(match, uid, tag) ==
    IF tag = TAG_SYSTEM_DNS
    THEN IF match = BPF_DROP_UNLESS_DNS THEN BPF_PASS ELSE match
    ELSE IF match = BPF_DROP_UNLESS_DNS THEN BPF_DROP ELSE match

\* lines 296-301: what becomes of match
ResolveMatch(match, uid, tag) ==
    IF tag = TAG_SYSTEM_DNS /\ uid = AID_DNS
    THEN IF match = BPF_DROP_UNLESS_DNS THEN BPF_PASS ELSE match
    ELSE IF match = BPF_DROP_UNLESS_DNS THEN BPF_DROP ELSE match

\* lines 265-328, run without interruption: where it returns (at), what
\* bpf_owner_match returned (<<>> if it was not called), the value returned,
\* and the stats maps it leaves
bpf_traffic_account(p, direction) ==
    LET sock_uid == p.uid
        utag     == bpf_map_lookup_elem(cookie_tag_map, p.cookie)
        uid0     == IF utag # <<>> THEN utag[1].uid ELSE sock_uid
        tag      == IF utag # <<>> THEN utag[1].tag ELSE NoTag
        maps     == [A |-> stats_map_A, B |-> stats_map_B]
    IN  IF sock_uid = AID_CLAT \/ uid0 = AID_CLAT
        THEN [at |-> "clat", owner |-> <<>>, ret |-> BPF_PASS, maps |-> maps,
              app |-> app_uid_stats_map]
        ELSE
        LET match0 == bpf_owner_match(p, sock_uid, direction) IN
        IF direction = BPF_EGRESS /\ match0 = BPF_DROP
        THEN [at |-> "egress_drop", owner |-> <<match0>>, ret |-> match0,
              maps |-> maps, app |-> app_uid_stats_map]
        ELSE
        LET dns         == tag = TAG_SYSTEM_DNS /\ uid0 = AID_DNS
            uid         == IF dns THEN sock_uid ELSE uid0
            match       == ResolveMatch(match0, uid0, tag)
            counterSet  == bpf_map_lookup_elem(uid_counterset_map, uid)
            key         == [uid |-> uid, tag |-> tag,
                            counterSet |-> IF counterSet # <<>> THEN counterSet[1] ELSE 0,
                            ifaceIndex |-> p.ifindex]
            selectedMap == bpf_map_lookup_elem(configuration_map,
                                               CURRENT_STATS_MAP_CONFIGURATION_KEY)
        IN  IF selectedMap = <<>>
            THEN [at |-> "no_selector", owner |-> <<match0>>, ret |-> match % 2,
                  maps |-> maps, app |-> app_uid_stats_map]
            ELSE
            LET tagged == IF key.tag # NoTag
                          THEN update_stats_with_config(maps, p, direction, key,
                                                        selectedMap[1])
                          ELSE maps
                key0   == [key EXCEPT !.tag = NoTag]
            IN  [at    |-> "counted",
                 owner |-> <<match0>>,
                 ret   |-> match % 2,
                 maps  |-> update_stats_with_config(tagged, p, direction, key0,
                                                    selectedMap[1]),
                 app   |-> update_stats(app_uid_stats_map, APP_STATS_MAP_SIZE,
                                        p, direction, uid)]

\* the packets counted so far in a stats map
RECURSIVE PacketsIn(_, _)
PacketsIn(map, keys) ==
    IF keys = {} THEN 0
    ELSE LET k == CHOOSE k \in keys : TRUE
         IN  map[k].rxPackets + map[k].txPackets + PacketsIn(map, keys \ {k})

\* the counters are 64 bits wide; the model stops counting after this many
\* packets
MaxCounted == 2

CountersBelowBound ==
    /\ PacketsIn(app_uid_stats_map, DOMAIN app_uid_stats_map) < MaxCounted
    /\ PacketsIn(stats_map_A, DOMAIN stats_map_A)
         + PacketsIn(stats_map_B, DOMAIN stats_map_B) < 2 * MaxCounted

\* the effect of one run of a cgroup program on the state
TrafficAccounted(p, direction) ==
    LET r == bpf_traffic_account(p, direction) IN
    /\ CountersBelowBound
    /\ cg_skb' = p
    /\ cg_uid' = p.uid
    /\ cg_direction' = direction
    /\ cg_match' = r.owner
    /\ cg_ret' = <<r.ret>>
    /\ stats_map_A' = r.maps.A
    /\ stats_map_B' = r.maps.B
    /\ app_uid_stats_map' = r.app
    /\ UNCHANGED <<iface_stats_map, cpu>>
    /\ UNCHANGED netd_maps
    /\ UNCHANGED dscp_vars

\* variant: an inbound packet that is going to be dropped is not counted
\* either
bpf_cgroup_ingress_drop_uncounted(p) ==
    IF bpf_traffic_account(p, BPF_INGRESS).ret = BPF_DROP
    THEN /\ CountersBelowBound
         /\ cg_skb' = p
         /\ cg_uid' = p.uid
         /\ cg_direction' = BPF_INGRESS
         /\ cg_match' = bpf_traffic_account(p, BPF_INGRESS).owner
         /\ cg_ret' = <<BPF_DROP>>
         /\ UNCHANGED stats_maps
         /\ UNCHANGED cpu
         /\ UNCHANGED netd_maps
         /\ UNCHANGED dscp_vars
    ELSE TrafficAccounted(p, BPF_INGRESS)

\* lines 330-333
bpf_cgroup_ingress(p) == TrafficAccounted(p, BPF_INGRESS)

\* variant: an outbound packet is not added to the per-uid table
bpf_cgroup_egress_app_uncounted(p) ==
    LET r == bpf_traffic_account(p, BPF_EGRESS) IN
    /\ CountersBelowBound
    /\ cg_skb' = p
    /\ cg_uid' = p.uid
    /\ cg_direction' = BPF_EGRESS
    /\ cg_match' = r.owner
    /\ cg_ret' = <<r.ret>>
    /\ stats_map_A' = r.maps.A
    /\ stats_map_B' = r.maps.B
    /\ UNCHANGED <<app_uid_stats_map, iface_stats_map, cpu>>
    /\ UNCHANGED netd_maps
    /\ UNCHANGED dscp_vars

\* variant: CLAT traffic is allowed and counted for the application
bpf_cgroup_egress_clat_counted(p) ==
    IF bpf_traffic_account(p, BPF_EGRESS).at = "clat"
    THEN /\ CountersBelowBound
         /\ cg_skb' = p
         /\ cg_uid' = p.uid
         /\ cg_direction' = BPF_EGRESS
         /\ cg_match' = <<>>
         /\ cg_ret' = <<BPF_PASS>>
         /\ app_uid_stats_map' = update_stats(app_uid_stats_map, APP_STATS_MAP_SIZE,
                                              p, BPF_EGRESS, p.uid)
         /\ UNCHANGED <<stats_map_A, stats_map_B, iface_stats_map>>
         /\ UNCHANGED cpu
         /\ UNCHANGED netd_maps
         /\ UNCHANGED dscp_vars
    ELSE TrafficAccounted(p, BPF_EGRESS)

\* lines 335-338
bpf_cgroup_egress(p) == TrafficAccounted(p, BPF_EGRESS)

\* what an xt_bpf program reports and leaves
XtReturned(p, direction, value, map) ==
    /\ PacketsIn(iface_stats_map, DOMAIN iface_stats_map) < MaxCounted
    /\ cg_skb' = p
    /\ cg_uid' = p.uid
    /\ cg_direction' = direction
    /\ cg_match' = <<>>
    /\ cg_ret' = <<value>>
    /\ iface_stats_map' = map
    /\ UNCHANGED <<stats_map_A, stats_map_B, app_uid_stats_map, cpu>>
    /\ UNCHANGED netd_maps
    /\ UNCHANGED dscp_vars

\* lines 341-358
xt_bpf_egress_prog(p) ==
    LET sock_uid == p.uid
        utag     == bpf_map_lookup_elem(cookie_tag_map, p.cookie)
    IN  IF sock_uid = AID_CLAT
        THEN XtReturned(p, BPF_EGRESS, BPF_NOMATCH, iface_stats_map)
        ELSE IF sock_uid = AID_SYSTEM /\ utag # <<>> /\ utag[1].uid = AID_CLAT
        THEN XtReturned(p, BPF_EGRESS, BPF_NOMATCH, iface_stats_map)
        ELSE XtReturned(p, BPF_EGRESS, BPF_MATCH,
                        update_stats(iface_stats_map, IFACE_STATS_MAP_SIZE,
                                     p, BPF_EGRESS, p.ifindex))

\* lines 361-371
xt_bpf_ingress_prog(p) ==
    XtReturned(p, BPF_INGRESS, BPF_MATCH,
               update_stats(iface_stats_map, IFACE_STATS_MAP_SIZE,
                            p, BPF_INGRESS, p.ifindex))

\* bpf_owner_match applied on its own: it reads the maps and writes nothing
OwnerMatched(p, uid, direction) ==
    /\ cg_skb' = p
    /\ cg_uid' = uid
    /\ cg_direction' = direction
    /\ cg_match' = <<bpf_owner_match(p, uid, direction)>>
    /\ cg_ret' = <<>>
    /\ UNCHANGED cpu
    /\ UNCHANGED netd_maps
    /\ UNCHANGED stats_maps
    /\ UNCHANGED dscp_vars

(***************************************************************************)
(* netd.c: inputs                                                          *)
(***************************************************************************)
\* a packet as a cgroup program sees it: data starts at the IP header, and
\* the bytes not listed are zero
CgPkt(uid, cookie, ifindex, ethertype, len, data) ==
    [protocol |-> htons(ethertype), ifindex |-> ifindex, len |-> len,
     uid |-> uid, cookie |-> cookie, data |-> data]

NoBytes == [o \in {} |-> 0]

Bytes1(o1, b1) == [o \in {o1} |-> b1]

Bytes2(o1, b1, o2, b2) == [o \in {o1, o2} |-> IF o = o1 THEN b1 ELSE b2]

Bytes3(o1, b1, o2, b2, o3, b3) ==
    [o \in {o1, o2, o3} |-> IF o = o1 THEN b1 ELSE IF o = o2 THEN b2 ELSE b3]

IdleCgSkb == CgPkt(0, 0, 0, 0, 0, NoBytes)

UidOwnerValue(iif, rule) == [iif |-> iif, rule |-> rule]

UidTagValue(uid, tag) == [uid |-> uid, tag |-> tag]

NoOwners == [u \in {} |-> UidOwnerValue(0, 0)]

NoTags == [c \in {} |-> UidTagValue(0, NoTag)]

NoCounterSets == [u \in {} |-> 0]

NoStats == [k \in {} |-> StatsValueZero]

\* the configuration array with both slots readable
ConfigOf(enabledRules, selectedMap) ==
    [k \in {UID_RULES_CONFIGURATION_KEY, CURRENT_STATS_MAP_CONFIGURATION_KEY} |->
        IF k = UID_RULES_CONFIGURATION_KEY THEN enabledRules ELSE selectedMap]

\* the configuration array with the enabled-rules slot unreadable
ConfigWithoutRules(selectedMap) ==
    [k \in {CURRENT_STATS_MAP_CONFIGURATION_KEY} |-> selectedMap]

\* CPUs that run the cgroup programs at the same time
NCPU == 2

CPUS == 1 .. NCPU

\* the locals of bpf_traffic_account on a CPU that runs nothing: pc is the
\* step it is at, upd the update it is in ("tag": the key with its tag,
\* "tag0": the key with tag 0, "app": app_uid_stats_map), selectedMap the
\* values it has read through the selectedMap pointer
IdleCpu ==
    [pc |-> "idle", upd |-> "none", p |-> IdleCgSkb, direction |-> BPF_EGRESS,
     uid |-> 0,
     key |-> [uid |-> 0, tag |-> NoTag, counterSet |-> 0, ifaceIndex |-> 0],
     match |-> 0, ret |-> <<>>, selectedMap |-> <<>>]

(***************************************************************************)
(* netd.c: bpf_traffic_account step by step, on several CPUs at once.      *)
(* Every map helper call and every __sync_fetch_and_add is one step.       *)
(***************************************************************************)
\* variant: the two buffers are exchanged
StatsMapOf_exchanged(selectedMap) ==
    IF selectedMap = SELECT_MAP_A THEN "B"
    ELSE IF selectedMap = SELECT_MAP_B THEN "A"
    ELSE "none"

\* lines 256-263: the buffer update_stats_with_config updates
StatsMapOf(selectedMap) ==
    IF selectedMap = SELECT_MAP_A THEN "A"
    ELSE IF selectedMap = SELECT_MAP_B THEN "B"
    ELSE "none"

\* variant: the sum is stored over what another CPU added meanwhile
sync_fetch_and_add_store(old, d) == d

\* lines 140-144: __sync_fetch_and_add, one atomic read-modify-write
sync_fetch_and_add(old, d) == old + d

\* lines 266-317: bpf_traffic_account up to the test of the selectedMap
\* pointer; "update" when it goes on to the updates
bpf_traffic_account_entry(p, direction) ==
    LET sock_uid == p.uid
        utag     == bpf_map_lookup_elem(cookie_tag_map, p.cookie)
        uid0     == IF utag # <<>> THEN utag[1].uid ELSE sock_uid
        tag      == IF utag # <<>> THEN utag[1].tag ELSE NoTag
        nokey    == IdleCpu.key
    IN  IF sock_uid = AID_CLAT \/ uid0 = AID_CLAT
        THEN [at |-> "clat", match |-> BPF_PASS, ret |-> BPF_PASS,
              uid |-> uid0, key |-> nokey]
        ELSE
        LET match0 == bpf_owner_match(p, sock_uid, direction) IN
        IF direction = BPF_EGRESS /\ match0 = BPF_DROP
        THEN [at |-> "egress_drop", match |-> match0, ret |-> match0,
              uid |-> uid0, key |-> nokey]
        ELSE
        LET dns         == tag = TAG_SYSTEM_DNS /\ uid0 = AID_DNS
            uid         == IF dns THEN sock_uid ELSE uid0
            match       == ResolveMatch(match0, uid0, tag)
            counterSet  == bpf_map_lookup_elem(uid_counterset_map, uid)
            key         == [uid |-> uid, tag |-> tag,
                            counterSet |-> IF counterSet # <<>> THEN counterSet[1] ELSE 0,
                            ifaceIndex |-> p.ifindex]
            selectedMap == bpf_map_lookup_elem(configuration_map,
                                               CURRENT_STATS_MAP_CONFIGURATION_KEY)
        IN  [at |-> IF selectedMap = <<>> THEN "no_selector" ELSE "update",
             match |-> match, ret |-> match % 2, uid |-> uid, key |-> key]

\* the table the update a CPU is in works on
CpuTable(l) ==
    IF l.upd = "app" THEN "app"
    ELSE StatsMapOf(l.selectedMap[Len(l.selectedMap)])

TableNamed(t) ==
    IF t = "A" THEN stats_map_A
    ELSE IF t = "B" THEN stats_map_B
    ELSE app_uid_stats_map

SizeOf(t) == IF t = "app" THEN APP_STATS_MAP_SIZE ELSE STATS_MAP_SIZE

\* the key of the update: line 320 the key with its tag, line 324 the key
\* after key.tag = 0, line 325 the uid
KeyOf(l) ==
    IF l.upd = "app" THEN l.uid
    ELSE IF l.upd = "tag0" THEN [l.key EXCEPT !.tag = NoTag]
    ELSE l.key

TableWritten(t, map) ==
    /\ stats_map_A' = IF t = "A" THEN map ELSE stats_map_A
    /\ stats_map_B' = IF t = "B" THEN map ELSE stats_map_B
    /\ app_uid_stats_map' = IF t = "app" THEN map ELSE app_uid_stats_map

\* what a data-path step leaves alone
DataPathFrame ==
    /\ UNCHANGED cg_obs
    /\ UNCHANGED iface_stats_map
    /\ UNCHANGED netd_maps
    /\ UNCHANGED dscp_vars

\* lines 319-327: from one update to the next, and the return
AfterUpdate(l) ==
    IF l.upd = "tag" THEN [l EXCEPT !.upd = "tag0", !.pc = "deref"]
    ELSE IF l.upd = "tag0" THEN [l EXCEPT !.upd = "app", !.pc = "lookup"]
    ELSE [l EXCEPT !.pc = "done", !.ret = <<l.match % 2>>]

\* lines 266-319: a CPU enters the program with a packet
CpuEnter(c, p, direction) ==
    LET l == cpu[c]
        e == bpf_traffic_account_entry(p, direction)
        m == [l EXCEPT !.p = p, !.direction = direction, !.uid = e.uid,
                       !.key = e.key, !.match = e.match]
    IN  /\ l.pc = "idle"
        /\ cpu' = [cpu EXCEPT ![c] =
                     IF e.at # "update"
                     THEN [m EXCEPT !.pc = "done", !.ret = <<e.ret>>]
                     ELSE [m EXCEPT !.pc = "deref",
                                    !.upd = IF e.key.tag # NoTag THEN "tag" ELSE "tag0"]]
        /\ UNCHANGED <<stats_map_A, stats_map_B, app_uid_stats_map>>
        /\ DataPathFrame

\* lines 320 and 324: *selectedMap, a plain load that races with the
\* control plane's store: the value now in the slot, or at the second load
\* the value of the first load kept in a register
CpuDeref(c) ==
    LET l == cpu[c]
        n == Len(l.selectedMap)
    IN  /\ l.pc = "deref"
        /\ \E v \in {configuration_map[CURRENT_STATS_MAP_CONFIGURATION_KEY]}
                    \cup {l.selectedMap[i] : i \in {n} \ {0}} :
             LET m == [l EXCEPT !.selectedMap = Append(@, v)]
             IN  cpu' = [cpu EXCEPT ![c] =
                           IF StatsMapOf(v) = "none" THEN AfterUpdate(m)
                           ELSE [m EXCEPT !.pc = "lookup"]]
        /\ UNCHANGED <<stats_map_A, stats_map_B, app_uid_stats_map>>
        /\ DataPathFrame

\* line 120: the first lookup
CpuLookup(c) ==
    LET l == cpu[c]
    IN  /\ l.pc = "lookup"
        /\ cpu' = [cpu EXCEPT ![c] =
                     IF bpf_map_lookup_elem(TableNamed(CpuTable(l)), KeyOf(l)) # <<>>
                     THEN [l EXCEPT !.pc = "packets"]
                     ELSE [l EXCEPT !.pc = "insert"]]
        /\ UNCHANGED <<stats_map_A, stats_map_B, app_uid_stats_map>>
        /\ DataPathFrame

\* lines 122-123: the insert of a zero value with BPF_NOEXIST
CpuInsert(c) ==
    LET l == cpu[c]
        t == CpuTable(l)
    IN  /\ l.pc = "insert"
        /\ TableWritten(t, bpf_map_update_elem_noexist(TableNamed(t), SizeOf(t),
                                                       KeyOf(l), StatsValueZero))
        /\ cpu' = [cpu EXCEPT ![c] = [l EXCEPT !.pc = "relookup"]]
        /\ DataPathFrame

\* lines 124 and 126: the second lookup; without an entry nothing is added
CpuRelookup(c) ==
    LET l == cpu[c]
    IN  /\ l.pc = "relookup"
        /\ cpu' = [cpu EXCEPT ![c] =
                     IF bpf_map_lookup_elem(TableNamed(CpuTable(l)), KeyOf(l)) # <<>>
                     THEN [l EXCEPT !.pc = "packets"]
                     ELSE AfterUpdate(l)]
        /\ UNCHANGED <<stats_map_A, stats_map_B, app_uid_stats_map>>
        /\ DataPathFrame

\* lines 140 and 143: the atomic addition to txPackets or rxPackets
CpuAddPackets(c) ==
    LET l == cpu[c]
        t == CpuTable(l)
        d == StatsDelta(l.p)
    IN  /\ l.pc = "packets"
        /\ TableWritten(t,
             IF l.direction = BPF_EGRESS
             THEN [TableNamed(t) EXCEPT ![KeyOf(l)].txPackets =
                                          sync_fetch_and_add(@, d.packets)]
             ELSE [TableNamed(t) EXCEPT ![KeyOf(l)].rxPackets =
                                          sync_fetch_and_add(@, d.packets)])
        /\ cpu' = [cpu EXCEPT ![c] = [l EXCEPT !.pc = "bytes"]]
        /\ DataPathFrame

\* lines 141 and 144: the atomic addition to txBytes or rxBytes
CpuAddBytes(c) ==
    LET l == cpu[c]
        t == CpuTable(l)
        d == StatsDelta(l.p)
    IN  /\ l.pc = "bytes"
        /\ TableWritten(t,
             IF l.direction = BPF_EGRESS
             THEN [TableNamed(t) EXCEPT ![KeyOf(l)].txBytes =
                                          sync_fetch_and_add(@, d.bytes)]
             ELSE [TableNamed(t) EXCEPT ![KeyOf(l)].rxBytes =
                                          sync_fetch_and_add(@, d.bytes)])
        /\ cpu' = [cpu EXCEPT ![c] = AfterUpdate(l)]
        /\ DataPathFrame

\* the control plane stores the other buffer's number in the selector slot
SelectorFlipped ==
    /\ CURRENT_STATS_MAP_CONFIGURATION_KEY \in DOMAIN configuration_map
    /\ configuration_map' =
         [configuration_map EXCEPT ![CURRENT_STATS_MAP_CONFIGURATION_KEY] =
            IF @ = SELECT_MAP_A THEN SELECT_MAP_B ELSE SELECT_MAP_A]
    /\ UNCHANGED <<uid_owner_map, cookie_tag_map, uid_counterset_map>>
    /\ UNCHANGED stats_maps
    /\ UNCHANGED <<cpu, cg_obs>>
    /\ UNCHANGED dscp_vars

CgIdle ==
    /\ cg_skb = IdleCgSkb
    /\ cg_uid = 0
    /\ cg_direction = BPF_EGRESS
    /\ cg_match = <<>>
    /\ cg_ret = <<>>
    /\ cpu = [c \in CPUS |-> IdleCpu]

NoStatsYet ==
    /\ stats_map_A = NoStats
    /\ stats_map_B = NoStats
    /\ app_uid_stats_map = NoStats
    /\ iface_stats_map = NoStats

\* the netd maps as the loader creates them, no program run yet
NetdIdle ==
    /\ configuration_map = ConfigOf(0, SELECT_MAP_A)
    /\ uid_owner_map = NoOwners
    /\ cookie_tag_map = NoTags
    /\ uid_counterset_map = NoCounterSets
    /\ NoStatsYet
    /\ CgIdle

(***************************************************************************)
(* Inputs                                                                  *)
(***************************************************************************)
IP4_A == <<10, 0, 0, 1>>
IP4_B == <<10, 0, 0, 2>>
IP4_C == <<10, 1, 0, 1>>
IP6_A == <<32, 1, 13, 184, 0, 0, 0, 0, 0, 0, 0, 0, 0, 0, 0, 1>>
IP6_B == <<32, 1, 13, 184, 0, 0, 0, 0, 0, 0, 0, 0, 0, 0, 0, 2>>
IP6_C == <<32, 1, 13, 184, 0, 0, 0, 0, 0, 0, 0, 0, 0, 0, 1, 1>>
IP6_ZERO == <<0, 0, 0, 0, 0, 0, 0, 0, 0, 0, 0, 0, 0, 0, 0, 0>>

\* a whole frame: Ethernet, IP and TCP headers all present
FullLen == 100

\* an Ethernet frame carrying IPv4 with a 20-byte header; ports are port numbers
Pkt4(cookie, ifindex, saddr, daddr, sportno, dportno, proto, tos) ==
    [pkt_type |-> PACKET_HOST, protocol |-> htons(ETH_P_IP),
     ifindex |-> ifindex, cookie |-> cookie, len |-> FullLen,
     b0 |-> 69, b1 |-> tos, check |-> 47806, l4proto |-> proto,
     saddr |-> saddr, daddr |-> daddr,
     sport |-> htons(sportno), dport |-> htons(dportno)]

\* an Ethernet frame carrying IPv6; tc is the 8-bit traffic class and fl the
\* top four bits of the flow label
Pkt6(cookie, ifindex, saddr, daddr, sportno, dportno, proto, tc, fl) ==
    [pkt_type |-> PACKET_HOST, protocol |-> htons(ETH_P_IPV6),
     ifindex |-> ifindex, cookie |-> cookie, len |-> FullLen,
     b0 |-> 96 + (tc \div 16), b1 |-> (tc % 16) * 16 + fl, check |-> 0,
     l4proto |-> proto, saddr |-> saddr, daddr |-> daddr,
     sport |-> htons(sportno), dport |-> htons(dportno)]

\* a DscpPolicy as the control plane writes it: ports big-endian in memory
Policy(present_fields, src_ip, dst_ip, ifindex, sportno, dstart, dend, proto, dscp) ==
    [src_ip |-> src_ip, dst_ip |-> dst_ip, ifindex |-> ifindex,
     src_port |-> htons(sportno), dst_port_start |-> htons(dstart),
     dst_port_end |-> htons(dend), proto |-> proto, dscp_val |-> dscp,
     present_fields |-> present_fields]

\* an array slot as the kernel creates it
ZeroPolicy == Policy(0, IP6_ZERO, IP6_ZERO, 0, 0, 0, 0, 0, 0)

Slots == 0 .. (MAX_POLICIES - 1)

ZeroTable == [i \in Slots |-> ZeroPolicy]

EmptyMap == [k \in {} |-> ZeroPolicy]

IdleSkb ==
    [pkt_type |-> PACKET_HOST, protocol |-> 0, ifindex |-> 0, cookie |-> 0,
     len |-> 0, b0 |-> 0, b1 |-> 0, check |-> 0, l4proto |-> 0,
     saddr |-> <<>>, daddr |-> <<>>, sport |-> 0, dport |-> 0]

\* an array whose first slots hold the policies of seq, the rest zero
TableOf(seq) ==
    [i \in Slots |-> IF i < Len(seq) THEN seq[i + 1] ELSE ZeroPolicy]

(***************************************************************************)
(* Traffic and policies of the cache scenarios (Spec)                      *)
(***************************************************************************)
\* the flow every scenario starts from: 10.0.0.1:4660 -> 10.0.0.2:256, TCP
BaseFlow4(cookie, tos) ==
    Pkt4(cookie, 2, IP4_A, IP4_B, 4660, 256, IPPROTO_TCP, tos)

BaseFlow6(cookie) ==
    Pkt6(cookie, 2, IP6_A, IP6_B, 4660, 256, IPPROTO_TCP, 185, 5)

\* the base flow with exactly one field of the tuple changed
OneFieldOff4(cookie) ==
    {Pkt4(cookie, 2, IP4_C, IP4_B, 4660, 256, IPPROTO_TCP, 1),
     Pkt4(cookie, 2, IP4_A, IP4_C, 4660, 256, IPPROTO_TCP, 1),
     Pkt4(cookie, 3, IP4_A, IP4_B, 4660, 256, IPPROTO_TCP, 1),
     Pkt4(cookie, 2, IP4_A, IP4_B, 4661, 256, IPPROTO_TCP, 1),
     Pkt4(cookie, 2, IP4_A, IP4_B, 4660, 257, IPPROTO_TCP, 1),
     Pkt4(cookie, 2, IP4_A, IP4_B, 4660, 256, IPPROTO_UDP, 1)}

\* frames from which no tuple can be read
Malformed4 ==
    {[BaseFlow4(1, 1) EXCEPT !.len = 10],
     [BaseFlow4(1, 1) EXCEPT !.len = 33],
     [BaseFlow4(1, 1) EXCEPT !.len = 53],
     [BaseFlow4(1, 1) EXCEPT !.l4proto = IPPROTO_UDP, !.len = 41],
     [BaseFlow4(1, 1) EXCEPT !.b0 = 101],
     [BaseFlow4(1, 1) EXCEPT !.b0 = 70],
     [BaseFlow4(1, 1) EXCEPT !.l4proto = 1]}

Malformed6 ==
    {[BaseFlow6(1) EXCEPT !.len = 53],
     [BaseFlow6(1) EXCEPT !.len = 73],
     [BaseFlow6(1) EXCEPT !.b0 = 69],
     [BaseFlow6(1) EXCEPT !.l4proto = 58]}

\* frames the program does not classify at all
Unclassified ==
    {[BaseFlow4(1, 1) EXCEPT !.cookie = 0],
     [BaseFlow4(1, 1) EXCEPT !.pkt_type = 4],
     [BaseFlow4(1, 1) EXCEPT !.protocol = htons(2054)]}

\* the TOS byte each socket of the cache scenarios sends
TosOf(cookie) == IF cookie = 1 THEN 185 ELSE IF cookie = 2 THEN 184 ELSE 0

\* one socket more than a socket map holds, all on the base flow, the first
\* of them also seen with each field changed, and one IPv6 socket
CachePackets ==
    {BaseFlow4(c, TosOf(c)) : c \in 1 .. (MAX_POLICIES + 1)}
    \cup OneFieldOff4(1)
    \cup {BaseFlow6(1), [BaseFlow6(1) EXCEPT !.dport = htons(257)]}
    \cup {[BaseFlow4(1, 1) EXCEPT !.cookie = 0]}

\* every field declared, all equal to the base flow
PolExact4 ==
    Policy(31, V4Mapped(IP4_A), V4Mapped(IP4_B), 2, 4660, 256, 256, IPPROTO_TCP, 46)

\* all but the source address declared, destination ports 256..257
PolRange4 ==
    Policy(30, IP6_ZERO, V4Mapped(IP4_B), 2, 4660, 256, 257, IPPROTO_TCP, 10)

PolPort6 == Policy(8, IP6_ZERO, IP6_ZERO, 2, 0, 256, 256, 0, 46)

Idle ==
    /\ skb_in = IdleSkb
    /\ skb = IdleSkb
    /\ exit = "idle"
    /\ best = NoBest
    /\ ret = <<>>

EmptyCaches ==
    /\ ipv4_socket_to_policies_map_A = EmptyMap
    /\ ipv4_socket_to_policies_map_B = EmptyMap
    /\ ipv6_socket_to_policies_map_A = EmptyMap
    /\ ipv6_socket_to_policies_map_B = EmptyMap

Provisioned4 == ipv4_dscp_policies_map = TableOf(<<PolExact4, PolRange4>>)

Provisioned6 == ipv6_dscp_policies_map = TableOf(<<PolPort6>>)

(***************************************************************************)
(* Spec: the program with its socket caches; IPv4 policies provisioned or   *)
(* not, no IPv6 policy                                                     *)
(***************************************************************************)
Init ==
    /\ switch_comp_map = 0
    /\ EmptyCaches
    /\ Provisioned4 \/ ipv4_dscp_policies_map = ZeroTable
    /\ ipv6_dscp_policies_map = ZeroTable
    /\ Idle
    /\ NetdIdle

Next ==
    \/ \E p \in CachePackets : schedcls_set_dscp_ether(p)
    \/ \E v \in {MAP_A, MAP_B} : SwitchMap(v)

Spec == Init /\ [][Next]_vars

(***************************************************************************)
(* SpecMark: one IPv4 and one IPv6 socket whose frames carry every ECN     *)
(* value, several DSCPs and flow labels; policies of both families         *)
(***************************************************************************)
\* TOS / traffic-class bytes: DSCP 0, 10, 46 and 63 with ECN 0..3
MarkTos == {0, 1, 2, 3, 40, 41, 184, 185, 187, 255}

\* the top four bits of the flow label
MarkFlowLabels == {0, 5, 15}

MarkPackets ==
    {Pkt4(1, 2, IP4_A, IP4_B, 4660, d, IPPROTO_TCP, tos) :
        d \in {256, 257}, tos \in MarkTos}
    \cup {Pkt4(1, 2, IP4_A, IP4_B, 4661, 256, IPPROTO_TCP, 185)}
    \cup {Pkt6(1, 2, IP6_A, IP6_B, 4660, 256, IPPROTO_TCP, tc, fl) :
            tc \in MarkTos, fl \in MarkFlowLabels}
    \cup {Pkt6(1, 2, IP6_A, IP6_B, 4660, 257, IPPROTO_TCP, 185, 5)}

InitMark ==
    /\ switch_comp_map = 0
    /\ EmptyCaches
    /\ Provisioned4
    /\ Provisioned6
    /\ Idle
    /\ NetdIdle

NextMark ==
    \/ \E p \in MarkPackets : schedcls_set_dscp_ether(p)
    \/ \E v \in {MAP_A, MAP_B} : SwitchMap(v)

SpecMark == InitMark /\ [][NextMark]_vars

(***************************************************************************)
(* SpecParse: well-formed and malformed frames of one IPv4 and one IPv6    *)
(* socket                                                                  *)
(***************************************************************************)
ParsePackets ==
    {BaseFlow4(1, 185), BaseFlow6(1)}
    \cup Malformed4 \cup Malformed6 \cup Unclassified

InitParse ==
    /\ switch_comp_map = 0
    /\ EmptyCaches
    /\ Provisioned4
    /\ Provisioned6
    /\ Idle
    /\ NetdIdle

NextParse ==
    \/ \E p \in ParsePackets : schedcls_set_dscp_ether(p)
    \/ \E v \in {MAP_A, MAP_B} : SwitchMap(v)

SpecParse == InitParse /\ [][NextParse]_vars

(***************************************************************************)
(* SpecScan: the scan over every policy array built from a set of policies *)
(***************************************************************************)
\* policies around the base flow; fields that are not declared hold values
\* the base flow does not have
ScanPolicies4 ==
    {Policy(0, V4Mapped(IP4_A), V4Mapped(IP4_B), 2, 4660, 256, 256, IPPROTO_TCP, 46),
     Policy(1, V4Mapped(IP4_A), IP6_ZERO, 2, 0, 0, 0, 0, 10),
     Policy(1, V4Mapped(IP4_A), IP6_ZERO, 2, 0, 0, 0, 0, 46),
     Policy(1, V4Mapped(IP4_A), IP6_ZERO, 3, 0, 0, 0, 0, 5),
     Policy(8, IP6_ZERO, IP6_ZERO, 2, 0, 255, 256, 0, 20),
     Policy(9, V4Mapped(IP4_A), IP6_ZERO, 2, 0, 256, 257, 0, 30),
     Policy(6, IP6_ZERO, V4Mapped(IP4_B), 2, 4660, 0, 0, 0, 12),
     Policy(16, IP6_ZERO, IP6_ZERO, 2, 0, 0, 0, IPPROTO_TCP, 8),
     Policy(31, V4Mapped(IP4_A), V4Mapped(IP4_B), 2, 4660, 256, 256, IPPROTO_TCP, 63)}

ScanPolicies6 ==
    {ZeroPolicy,
     Policy(1, IP6_A, IP6_ZERO, 2, 0, 0, 0, 0, 10),
     Policy(24, IP6_ZERO, IP6_ZERO, 2, 0, 255, 256, IPPROTO_TCP, 46)}

ScanPackets ==
    {Pkt4(1, 2, s, IP4_B, 4660, d, IPPROTO_TCP, 185) :
        s \in {IP4_A, IP4_C}, d \in {255, 256, 257}}
    \cup {Pkt4(1, 2, IP4_A, IP4_B, 4660, 256, IPPROTO_UDP, 185),
          Pkt4(1, 2, IP4_A, IP4_C, 4660, 256, IPPROTO_TCP, 185),
          Pkt4(1, 2, IP4_A, IP4_B, 13330, 256, IPPROTO_TCP, 185),
          Pkt4(1, 3, IP4_A, IP4_B, 4660, 256, IPPROTO_TCP, 185)}
    \cup {Pkt6(1, 2, IP6_A, IP6_B, 4660, d, IPPROTO_TCP, 185, 5) : d \in {256, 257}}
    \cup {Pkt6(1, 2, IP6_C, IP6_B, 4660, 256, IPPROTO_UDPLITE, 0, 0)}

InitScan ==
    /\ switch_comp_map = 0
    /\ EmptyCaches
    /\ \/ /\ ipv4_dscp_policies_map \in [Slots -> ScanPolicies4]
          /\ ipv6_dscp_policies_map = ZeroTable
       \/ /\ ipv4_dscp_policies_map = ZeroTable
          /\ ipv6_dscp_policies_map \in [Slots -> ScanPolicies6]
    /\ Idle
    /\ NetdIdle

NextScan == \E p \in ScanPackets : schedcls_set_dscp_ether(p)

SpecScan == InitScan /\ [][NextScan]_vars

(***************************************************************************)
(* SpecOwner: bpf_owner_match applied once to each packet, uid and         *)
(* direction, for every owner configuration of the sets below              *)
(***************************************************************************)
\* UDP over IPv4 with a 20-byte header
Udp4(uid, cookie, ifindex) ==
    CgPkt(uid, cookie, ifindex, ETH_P_IP, FullLen,
          Bytes2(IPPROTO_IHL_OFF, 69, IP_PROTO_OFF, IPPROTO_UDP))

\* UDP over IPv6
Udp6(uid, cookie, ifindex) ==
    CgPkt(uid, cookie, ifindex, ETH_P_IPV6, FullLen,
          Bytes2(0, 96, IPV6_PROTO_OFF, IPPROTO_UDP))

\* ESP over IPv4
Esp4(uid, cookie, ifindex) ==
    CgPkt(uid, cookie, ifindex, ETH_P_IP, FullLen,
          Bytes2(IPPROTO_IHL_OFF, 69, IP_PROTO_OFF, IPPROTO_ESP))

\* ESP over IPv6
Esp6(uid, cookie, ifindex) ==
    CgPkt(uid, cookie, ifindex, ETH_P_IPV6, FullLen,
          Bytes2(0, 96, IPV6_PROTO_OFF, IPPROTO_ESP))

\* TCP over IPv4 with four bytes of IP options (IHL 6) and the flags byte
Tcp4Options(uid, cookie, ifindex, flags) ==
    CgPkt(uid, cookie, ifindex, ETH_P_IP, FullLen,
          Bytes3(IPPROTO_IHL_OFF, 70, IP_PROTO_OFF, IPPROTO_TCP,
                 SIZEOF_IPHDR + 4 + TCP_FLAG_OFF, flags))

\* TCP over IPv4 with the flags byte given (RST is 4, ACK is 16)
Tcp4(uid, cookie, ifindex, flags) ==
    CgPkt(uid, cookie, ifindex, ETH_P_IP, FullLen,
          Bytes3(IPPROTO_IHL_OFF, 69, IP_PROTO_OFF, IPPROTO_TCP,
                 SIZEOF_IPHDR + TCP_FLAG_OFF, flags))

\* TCP over IPv6 with the flags byte given
Tcp6(uid, cookie, ifindex, flags) ==
    CgPkt(uid, cookie, ifindex, ETH_P_IPV6, FullLen,
          Bytes3(0, 96, IPV6_PROTO_OFF, IPPROTO_TCP,
                 SIZEOF_IPV6HDR + TCP_FLAG_OFF, flags))

\* the four categories an owner needs a bit to be exempted from
AllowListBits ==
    DOZABLE_MATCH + POWERSAVE_MATCH + RESTRICTED_MATCH + LOW_POWER_STANDBY_MATCH

\* the four categories an owner's bit subjects it to
DenyListBits ==
    STANDBY_MATCH + OEM_DENY_1_MATCH + OEM_DENY_2_MATCH + OEM_DENY_3_MATCH

\* values of the enabled-rules slot: nothing, each category alone, two
\* categories, all eight
OwnerEnabled ==
    {0, DOZABLE_MATCH, STANDBY_MATCH, POWERSAVE_MATCH, RESTRICTED_MATCH,
     LOW_POWER_STANDBY_MATCH, OEM_DENY_1_MATCH, OEM_DENY_2_MATCH,
     OEM_DENY_3_MATCH, DOZABLE_MATCH + STANDBY_MATCH,
     AllowListBits + DenyListBits}

OwnerConfigs ==
    {ConfigOf(e, SELECT_MAP_A) : e \in OwnerEnabled}
    \cup {ConfigWithoutRules(SELECT_MAP_A)}

\* owner entries without the interface bit
OwnerEntriesPlain ==
    {UidOwnerValue(0, r) :
        r \in {0, HAPPY_BOX_MATCH, DOZABLE_MATCH, STANDBY_MATCH, POWERSAVE_MATCH,
               RESTRICTED_MATCH, LOW_POWER_STANDBY_MATCH, OEM_DENY_1_MATCH,
               OEM_DENY_2_MATCH, OEM_DENY_3_MATCH, AllowListBits,
               AllowListBits + STANDBY_MATCH, DOZABLE_MATCH + STANDBY_MATCH,
               LOCKDOWN_VPN_MATCH, AllowListBits + LOCKDOWN_VPN_MATCH}}

\* owner entries with the interface bit, allowed interface 0, 2 or 3
OwnerEntriesIif ==
    {UidOwnerValue(iif, r) :
        iif \in {0, 2, 3},
        r \in {IIF_MATCH, AllowListBits + IIF_MATCH,
               IIF_MATCH + LOCKDOWN_VPN_MATCH,
               AllowListBits + IIF_MATCH + LOCKDOWN_VPN_MATCH}}

\* uids around AID_APP_START; the first application uid never has an entry
OwnerUids == {AID_APP_START - 1, AID_APP_START, AID_APP_START + 1}

OwnerTables ==
    {NoOwners}
    \cup {[u \in {AID_APP_START - 1, AID_APP_START + 1} |-> e] :
            e \in OwnerEntriesPlain \cup OwnerEntriesIif}

OwnerPackets(uid) ==
    UNION {{Udp4(uid, 1, i), Udp6(uid, 1, i), Esp4(uid, 1, i),
            Tcp4(uid, 1, i, 4), Tcp4(uid, 1, i, 16), Tcp6(uid, 1, i, 20)} :
           i \in {1, 2, 3}}
    \cup {Esp6(uid, 1, 2), Tcp4Options(uid, 1, 2, 4), Tcp4Options(uid, 1, 2, 16)}

InitOwner ==
    /\ configuration_map \in OwnerConfigs
    /\ uid_owner_map \in OwnerTables
    /\ cookie_tag_map = NoTags
    /\ uid_counterset_map = NoCounterSets
    /\ NoStatsYet
    /\ CgIdle
    /\ switch_comp_map = 0
    /\ EmptyCaches
    /\ ipv4_dscp_policies_map = ZeroTable
    /\ ipv6_dscp_policies_map = ZeroTable
    /\ Idle

NextOwner ==
    /\ CgIdle
    /\ \E uid \in OwnerUids, direction \in {BPF_EGRESS, BPF_INGRESS} :
         \E p \in OwnerPackets(uid) : OwnerMatched(p, uid, direction)

SpecOwner == InitOwner /\ [][NextOwner]_vars

(***************************************************************************)
(* SpecAccount: the two cgroup programs on the packets of one application, *)
(* tagged and untagged                                                     *)
(***************************************************************************)
\* the application whose sockets send and receive
APP_UID == AID_APP_START + 1

\* the configuration array with the selector slot unreadable
ConfigWithoutSelector(enabledRules) ==
    [k \in {UID_RULES_CONFIGURATION_KEY} |-> enabledRules]

AccountConfigs ==
    {ConfigOf(0, SELECT_MAP_A), ConfigOf(0, SELECT_MAP_B),
     ConfigOf(STANDBY_MATCH, SELECT_MAP_A), ConfigWithoutSelector(0)}

AccountOwners ==
    {NoOwners}
    \cup {[u \in {APP_UID} |-> e] :
            e \in {UidOwnerValue(2, IIF_MATCH),
                   UidOwnerValue(0, LOCKDOWN_VPN_MATCH),
                   UidOwnerValue(0, STANDBY_MATCH)}}

\* sockets 1..5 are tagged; socket 1 is the resolver's
AccountTags ==
    [c \in 1 .. 5 |->
        CASE c = 1 -> UidTagValue(AID_DNS, TAG_SYSTEM_DNS)
          [] c = 2 -> UidTagValue(APP_UID, <<0, 1>>)
          [] c = 3 -> UidTagValue(AID_DNS, <<0, 1>>)
          [] c = 4 -> UidTagValue(APP_UID, TAG_SYSTEM_DNS)
          [] c = 5 -> UidTagValue(AID_CLAT, NoTag)]

AccountPackets ==
    {Udp4(APP_UID, c, 3) : c \in 0 .. 5}
    \cup {Udp4(APP_UID, 1, 2), Udp4(AID_CLAT, 0, 3), Udp6(APP_UID, 0, 3)}

InitAccount ==
    /\ configuration_map \in AccountConfigs
    /\ uid_owner_map \in AccountOwners
    /\ cookie_tag_map = AccountTags
    /\ uid_counterset_map = [u \in {APP_UID} |-> 1]
    /\ NoStatsYet
    /\ CgIdle
    /\ switch_comp_map = 0
    /\ EmptyCaches
    /\ ipv4_dscp_policies_map = ZeroTable
    /\ ipv6_dscp_policies_map = ZeroTable
    /\ Idle

NextAccount ==
    \/ \E p \in AccountPackets : bpf_cgroup_ingress(p)
    \/ \E p \in AccountPackets : bpf_cgroup_egress(p)

SpecAccount == InitAccount /\ [][NextAccount]_vars

(***************************************************************************)
(* SpecStats: the two xt_bpf programs, one stats update each, on packets   *)
(* of lengths around the MTU and around whole numbers of segments          *)
(***************************************************************************)
\* byte lengths: small, the MTU, one more, and for each family the
\* lengths that fill two and three segments exactly and one byte more
StatsLens ==
    {FullLen, MTU, MTU + 1, 2928, 2929, 2948, 2949, 3000, 4356, 4357,
     4396, 4397, 65535}

\* a packet of the length with an IP header of the family
StatsPkt(uid, cookie, ifindex, ethertype, len) ==
    CgPkt(uid, cookie, ifindex, ethertype, len,
          IF ethertype = ETH_P_IP
          THEN Bytes2(IPPROTO_IHL_OFF, 69, IP_PROTO_OFF, IPPROTO_TCP)
          ELSE Bytes2(0, 96, IPV6_PROTO_OFF, IPPROTO_TCP))

StatsPackets ==
    {StatsPkt(AID_APP_START + 1, 0, 2, e, l) :
        e \in {ETH_P_IP, ETH_P_IPV6}, l \in StatsLens}
    \cup {StatsPkt(AID_APP_START + 1, 0, 3, ETH_P_IP, FullLen),
          StatsPkt(AID_CLAT, 0, 2, ETH_P_IP, FullLen),
          StatsPkt(AID_SYSTEM, 1, 2, ETH_P_IP, FullLen),
          StatsPkt(AID_SYSTEM, 0, 2, ETH_P_IP, FullLen)}

InitStats ==
    /\ configuration_map = ConfigOf(0, SELECT_MAP_A)
    /\ uid_owner_map = NoOwners
    /\ cookie_tag_map = [c \in {1} |-> UidTagValue(AID_CLAT, NoTag)]
    /\ uid_counterset_map = NoCounterSets
    /\ NoStatsYet
    /\ CgIdle
    /\ switch_comp_map = 0
    /\ EmptyCaches
    /\ ipv4_dscp_policies_map = ZeroTable
    /\ ipv6_dscp_policies_map = ZeroTable
    /\ Idle

NextStats ==
    \/ \E p \in StatsPackets : xt_bpf_egress_prog(p)
    \/ \E p \in StatsPackets : xt_bpf_ingress_prog(p)

SpecStats == InitStats /\ [][NextStats]_vars

(***************************************************************************)
(* SpecRace: every CPU runs bpf_traffic_account once, step by step, on a   *)
(* packet of the same application, while the control plane flips the       *)
(* selector at any moment                                                  *)
(***************************************************************************)
RACE_TAG == <<0, 1>>

\* what app_uid_stats_map holds for the application before the packets
AppStatsBefore ==
    [rxPackets |-> 5, rxBytes |-> 500, txPackets |-> 7, txBytes |-> 700]

\* a packet of a tagged socket, sent, and a packet above the MTU of an
\* untagged socket, received
RaceRuns ==
    {[p |-> StatsPkt(APP_UID, 2, 2, ETH_P_IP, FullLen), direction |-> BPF_EGRESS],
     [p |-> StatsPkt(APP_UID, 0, 2, ETH_P_IP, 3000), direction |-> BPF_INGRESS]}

InitRace ==
    /\ configuration_map = ConfigOf(0, SELECT_MAP_A)
    /\ uid_owner_map = NoOwners
    /\ cookie_tag_map = [c \in {2} |-> UidTagValue(APP_UID, RACE_TAG)]
    /\ uid_counterset_map = NoCounterSets
    /\ stats_map_A = NoStats
    /\ stats_map_B = NoStats
    /\ iface_stats_map = NoStats
    /\ app_uid_stats_map = [u \in {APP_UID} |-> AppStatsBefore]
    /\ CgIdle
    /\ switch_comp_map = 0
    /\ EmptyCaches
    /\ ipv4_dscp_policies_map = ZeroTable
    /\ ipv6_dscp_policies_map = ZeroTable
    /\ Idle

\* the CPUs are alike: they are numbered so that those with the packet of
\* the tagged socket come first
RunsInOrder(c, r) ==
    \A b \in CPUS :
        cpu[b].pc # "idle"
        => /\ b < c => cpu[b].p.cookie >= r.p.cookie
           /\ b > c => cpu[b].p.cookie <= r.p.cookie

NextRace ==
    \/ \E c \in CPUS, r \in RaceRuns : RunsInOrder(c, r) /\ CpuEnter(c, r.p, r.direction)
    \/ \E c \in CPUS : CpuDeref(c)
    \/ \E c \in CPUS : CpuLookup(c)
    \/ \E c \in CPUS : CpuInsert(c)
    \/ \E c \in CPUS : CpuRelookup(c)
    \/ \E c \in CPUS : CpuAddPackets(c)
    \/ \E c \in CPUS : CpuAddBytes(c)
    \/ SelectorFlipped

SpecRace == InitRace /\ [][NextRace]_vars

(***************************************************************************)
(* SpecFull: the cgroup programs when the selected stats buffer holds as   *)
(* many entries as it can                                                  *)
(***************************************************************************)
\* the keys of other applications that fill a buffer
FillerKeys ==
    {[uid |-> AID_APP_START + 100 + i, tag |-> NoTag, counterSet |-> 0,
      ifaceIndex |-> 3] : i \in 1 .. STATS_MAP_SIZE}

\* a buffer at capacity; one entry has counted a packet
FullOfOthers ==
    [k \in FillerKeys |->
        IF k.uid = AID_APP_START + 101
        THEN [rxPackets |-> 1, rxBytes |-> FullLen, txPackets |-> 0, txBytes |-> 0]
        ELSE StatsValueZero]

\* a buffer at capacity that has the application's entry for tag 0 on
\* interface 3
FullWithTagZero ==
    LET own == [uid |-> APP_UID, tag |-> NoTag, counterSet |-> 1, ifaceIndex |-> 3]
        rest == {k \in FillerKeys : k.uid # AID_APP_START + 101}
    IN  [k \in rest \cup {own} |-> StatsValueZero]

InitFull ==
    /\ \E s \in {SELECT_MAP_A, SELECT_MAP_B}, full \in {FullOfOthers, FullWithTagZero} :
         /\ configuration_map = ConfigOf(0, s)
         /\ stats_map_A = IF s = SELECT_MAP_A THEN full ELSE NoStats
         /\ stats_map_B = IF s = SELECT_MAP_B THEN full ELSE NoStats
    /\ uid_owner_map \in AccountOwners
    /\ cookie_tag_map = AccountTags
    /\ uid_counterset_map = [u \in {APP_UID} |-> 1]
    /\ app_uid_stats_map = NoStats
    /\ iface_stats_map = NoStats
    /\ CgIdle
    /\ switch_comp_map = 0
    /\ EmptyCaches
    /\ ipv4_dscp_policies_map = ZeroTable
    /\ ipv6_dscp_policies_map = ZeroTable
    /\ Idle

NextFull ==
    \/ \E p \in AccountPackets : bpf_cgroup_ingress(p)
    \/ \E p \in AccountPackets : bpf_cgroup_egress(p)

SpecFull == InitFull /\ [][NextFull]_vars

(***************************************************************************)
(* SpecTally: the two cgroup programs, from empty tables, with the control *)
(* plane flipping the stats selector between runs                          *)
(***************************************************************************)
InitTally ==
    /\ configuration_map \in {ConfigOf(0, SELECT_MAP_A),
                               ConfigOf(STANDBY_MATCH, SELECT_MAP_B)}
    /\ uid_owner_map \in {NoOwners,
                          [u \in {APP_UID} |-> UidOwnerValue(0, STANDBY_MATCH)]}
    /\ cookie_tag_map = AccountTags
    /\ uid_counterset_map = [u \in {APP_UID} |-> 1]
    /\ NoStatsYet
    /\ CgIdle
    /\ switch_comp_map = 0
    /\ EmptyCaches
    /\ ipv4_dscp_policies_map = ZeroTable
    /\ ipv6_dscp_policies_map = ZeroTable
    /\ Idle

NextTally ==
    \/ \E p \in AccountPackets : bpf_cgroup_ingress(p)
    \/ \E p \in AccountPackets : bpf_cgroup_egress(p)
    \/ SelectorFlipped

SpecTally == InitTally /\ [][NextTally]_vars

(***************************************************************************)
(* The vocabulary of the properties: what a frame and a policy mean,       *)
(* stated without the program's own tests                                  *)
(***************************************************************************)
\* the number a 16-bit network-order field carries: first byte in memory
\* (the low byte of the little-endian load) times 256 plus the second
PortNumber(field) == 256 * (field % 256) + (field \div 256)

\* a frame whose EtherType says IPv4
SaysIPv4(p) == p.protocol = 8

\* the flow of a frame: addresses as 128-bit values, ports as numbers
FlowOf(p) ==
    [src     |-> IF SaysIPv4(p) THEN V4Mapped(p.saddr) ELSE p.saddr,
     dst     |-> IF SaysIPv4(p) THEN V4Mapped(p.daddr) ELSE p.daddr,
     ifindex |-> p.ifindex,
     sport   |-> PortNumber(p.sport),
     dport   |-> PortNumber(p.dport),
     proto   |-> p.l4proto]

\* the flow a cache entry was stored for
FlowOfEntry(e) ==
    [src     |-> e.src_ip,
     dst     |-> e.dst_ip,
     ifindex |-> e.ifindex,
     sport   |-> PortNumber(e.src_port),
     dport   |-> PortNumber(e.dst_port),
     proto   |-> e.proto]

Fields == {"src_ip", "dst_ip", "src_port", "dst_port", "proto"}

FlagOf(field) ==
    CASE field = "src_ip"   -> 1
      [] field = "dst_ip"   -> 2
      [] field = "src_port" -> 4
      [] field = "dst_port" -> 8
      [] field = "proto"    -> 16

\* the fields a policy declares
Declared(policy) ==
    {f \in Fields : (policy.present_fields \div FlagOf(f)) % 2 = 1}

\* the flow satisfies the policy's predicate on one field
Satisfies(flow, policy, field) ==
    CASE field = "src_ip"   -> flow.src = policy.src_ip
      [] field = "dst_ip"   -> flow.dst = policy.dst_ip
      [] field = "src_port" -> flow.sport = PortNumber(policy.src_port)
      [] field = "dst_port" ->
            /\ PortNumber(policy.dst_port_start) <= flow.dport
            /\ flow.dport <= PortNumber(policy.dst_port_end)
      [] field = "proto"    -> flow.proto = policy.proto

\* number of declared fields the flow satisfies
Score(flow, policy) ==
    Cardinality({f \in Declared(policy) : Satisfies(flow, policy, f)})

Eligible(flow, policy) ==
    /\ policy.present_fields # 0
    /\ policy.ifindex = flow.ifindex
    /\ \A f \in Declared(policy) : Satisfies(flow, policy, f)

\* the policy array the last frame was matched against
TableOfLast == IF SaysIPv4(skb_in) THEN ipv4_dscp_policies_map
                                   ELSE ipv6_dscp_policies_map

\* the socket map the selector names for the last frame's family
MapOfLast ==
    IF SaysIPv4(skb_in)
    THEN IF switch_comp_map = 1 THEN ipv4_socket_to_policies_map_A
                                ELSE ipv4_socket_to_policies_map_B
    ELSE IF switch_comp_map = 1 THEN ipv6_socket_to_policies_map_A
                                ELSE ipv6_socket_to_policies_map_B

EligibleSlots == {i \in Slots : Eligible(FlowOf(skb_in), TableOfLast[i])}

\* the eligible slots of the highest score
TopSlots ==
    {i \in EligibleSlots :
        \A j \in EligibleSlots :
            Score(FlowOf(skb_in), TableOfLast[j]) <= Score(FlowOf(skb_in), TableOfLast[i])}

\* the six DSCP bits the frame carries
DscpOf(p) ==
    IF SaysIPv4(p) THEN p.b1 \div 4
    ELSE ((p.b0 % 16) * 16 + (p.b1 \div 16)) \div 4

\* the scan ran on the last frame
Scanned == exit \in {"matched", "no_match"}

(***************************************************************************)
(* Properties of the scan (SpecScan)                                       *)
(***************************************************************************)
\* C1: when the cache misses, the scan decides for a policy exactly when
\* some policy is eligible (non-zero mask, the frame's interface, every
\* declared field satisfied); the policy chosen is an eligible one of the
\* highest score, best_score is its number of declared fields, and its
\* dscp_val (a DSCP, 0..63) is the DSCP the frame leaves with and the value
\* of the entry stored for the socket (the insert fails only on a full map).
C1_ChosenIsBestEligible ==
    Scanned =>
        /\ (exit = "matched") <=> (EligibleSlots # {})
        /\ exit = "matched" =>
              /\ best.match \in TopSlots
              /\ best.score = Score(FlowOf(skb_in), TableOfLast[best.match])
              /\ DscpOf(skb) = TableOfLast[best.match].dscp_val
              /\ \/ /\ skb_in.cookie \in DOMAIN MapOfLast
                    /\ MapOfLast[skb_in.cookie].dscp_val
                          = TableOfLast[best.match].dscp_val
                    /\ FlowOfEntry(MapOfLast[skb_in.cookie]) = FlowOf(skb_in)
                 \/ /\ skb_in.cookie \notin DOMAIN MapOfLast
                    /\ Cardinality(DOMAIN MapOfLast) = MAX_POLICIES

\* a policy of score 2 or more was chosen over an eligible one of lower
\* score, changed the frame's DSCP and was cached
C1_Witness ==
    /\ exit = "matched"
    /\ best.score >= 2
    /\ \E j \in EligibleSlots : Score(FlowOf(skb_in), TableOfLast[j]) < best.score
    /\ DscpOf(skb) # DscpOf(skb_in)
    /\ skb_in.cookie \in DOMAIN MapOfLast

\* C2: when several eligible policies share the highest score, the one of
\* the lowest index is chosen.
C2_TieKeepsLowestIndex ==
    exit = "matched" => \A j \in TopSlots : best.match <= j

\* two policies of different dscp_val tie and the frame carries the first's
C2_Witness ==
    /\ exit = "matched"
    /\ \E j \in TopSlots :
          /\ j > best.match
          /\ TableOfLast[j].dscp_val # TableOfLast[best.match].dscp_val
    /\ DscpOf(skb) = TableOfLast[best.match].dscp_val

\* the slots holding a policy with a declared field the frame does not satisfy
PartialSlots ==
    {i \in Slots :
        \E f \in Declared(TableOfLast[i]) :
            ~Satisfies(FlowOf(skb_in), TableOfLast[i], f)}

\* C3: a policy with a declared field that does not match is never made the
\* best match, whatever its partial score, and a table of such policies and
\* empty slots decides nothing.
C3_PartialMatchNeverChosen ==
    Scanned =>
        /\ best.score >= 0 => best.match \notin PartialSlots
        /\ (\A i \in Slots : i \in PartialSlots \/ TableOfLast[i].present_fields = 0)
              => exit = "no_match" /\ skb = skb_in

\* a policy on the frame's interface satisfied in more fields than the
\* chosen policy declares, but not in all of its own
C3_Witness ==
    /\ exit = "matched"
    /\ \E i \in PartialSlots :
          /\ TableOfLast[i].ifindex = skb_in.ifindex
          /\ Score(FlowOf(skb_in), TableOfLast[i]) > best.score

\* C4: a slot whose present_fields is zero is never made the best match,
\* and a table of such slots only decides nothing.
C4_ZeroMaskNeverChosen ==
    Scanned =>
        /\ best.score >= 0 => TableOfLast[best.match].present_fields # 0
        /\ (\A i \in Slots : TableOfLast[i].present_fields = 0)
              => exit = "no_match" /\ best = NoBest /\ skb = skb_in

\* a table of zero-mask slots whose other fields all equal the frame's
C4_Witness ==
    /\ exit = "no_match"
    /\ \A i \in Slots :
          /\ TableOfLast[i].present_fields = 0
          /\ TableOfLast[i].ifindex = skb_in.ifindex
          /\ TableOfLast[i].src_ip = FlowOf(skb_in).src
          /\ PortNumber(TableOfLast[i].dst_port_start) = FlowOf(skb_in).dport

\* C5: a policy of another interface than the frame's is never made the
\* best match, and a table of such policies only decides nothing.
C5_OtherInterfaceNeverChosen ==
    Scanned =>
        /\ best.score >= 0 => TableOfLast[best.match].ifindex = skb_in.ifindex
        /\ (\A i \in Slots : TableOfLast[i].ifindex # skb_in.ifindex)
              => exit = "no_match" /\ skb = skb_in

\* every slot holds a policy of another interface whose declared fields
\* are all satisfied
C5_Witness ==
    /\ exit = "no_match"
    /\ \A i \in Slots :
          /\ TableOfLast[i].ifindex # skb_in.ifindex
          /\ Declared(TableOfLast[i]) # {}
          /\ \A f \in Declared(TableOfLast[i]) :
                Satisfies(FlowOf(skb_in), TableOfLast[i], f)

\* the locals of the call on the last frame
TupleOfLast == ExtractTuple(skb_in, SaysIPv4(skb_in), TRUE)

\* C6: the program's destination-port test passes exactly for the declared
\* ranges with start <= port <= end, both ends included, as port numbers;
\* its other four tests pass exactly for declared fields of equal value.
C6_PortRangeInclusiveOthersExact ==
    Scanned =>
        \A i \in Slots :
            LET policy == TableOfLast[i]
                holds(f) == f \in Declared(policy)
                            /\ Satisfies(FlowOf(skb_in), policy, f)
            IN  /\ DstPortMatches(policy, TupleOfLast) <=> holds("dst_port")
                /\ SrcPortMatches(policy, TupleOfLast) <=> holds("src_port")
                /\ SrcIpMatches(policy, TupleOfLast) <=> holds("src_ip")
                /\ DstIpMatches(policy, TupleOfLast) <=> holds("dst_ip")
                /\ ProtoMatches(policy, TupleOfLast) <=> holds("proto")

\* a frame to the last port of a range whose bounds, as loaded, are in the
\* opposite order, chosen for that range alone
C6_Witness ==
    /\ exit = "matched"
    /\ Declared(TableOfLast[best.match]) = {"dst_port"}
    /\ FlowOf(skb_in).dport = PortNumber(TableOfLast[best.match].dst_port_end)
    /\ TableOfLast[best.match].dst_port_start > TableOfLast[best.match].dst_port_end

(***************************************************************************)
(* Properties of one run of the program, stated on its step: p is the      *)
(* frame handed in, the unprimed maps are those the run found              *)
(***************************************************************************)
\* the step is a run of the program (the control plane changes the selector)
ProgramRan == switch_comp_map' = switch_comp_map

\* no flow tuple can be read from the frame: a header is cut short, the
\* version nibble is not the family's, an IPv4 header is not 5 words, or the
\* transport is none of UDP, UDP-Lite and TCP
Malformed(p) ==
    LET ip == IF SaysIPv4(p) THEN 20 ELSE 40
        l4 == IF p.l4proto = 6 THEN 20 ELSE 8
    IN  \/ p.len < 14 + ip
        \/ p.b0 \div 16 # (IF SaysIPv4(p) THEN 4 ELSE 6)
        \/ SaysIPv4(p) /\ p.b0 % 16 # 5
        \/ p.l4proto \notin {6, 17, 136}
        \/ p.len < 14 + ip + l4

\* a frame of a socket, for this host, IPv4 or IPv6, with a readable tuple
Readable(p) ==
    /\ p.pkt_type = 0
    /\ p.protocol \in {8, 56710}
    /\ p.cookie # 0
    /\ ~Malformed(p)

TableFor(p) == IF SaysIPv4(p) THEN ipv4_dscp_policies_map
                              ELSE ipv6_dscp_policies_map

MapFor(p) ==
    IF SaysIPv4(p)
    THEN IF switch_comp_map = 1 THEN ipv4_socket_to_policies_map_A
                                ELSE ipv4_socket_to_policies_map_B
    ELSE IF switch_comp_map = 1 THEN ipv6_socket_to_policies_map_A
                                ELSE ipv6_socket_to_policies_map_B

\* the socket map holds an entry for the frame's socket, stored for
\* another flow
StaleEntry(p) ==
    /\ p.cookie \in DOMAIN MapFor(p)
    /\ FlowOfEntry(MapFor(p)[p.cookie]) # FlowOf(p)

CacheMiss(p) == p.cookie \notin DOMAIN MapFor(p) \/ StaleEntry(p)

SomeEligible(p) == \E i \in Slots : Eligible(FlowOf(p), TableFor(p)[i])

\* the returns of the program that come before the cache lookup
BeforeLookup ==
    {"not_host", "not_ip", "no_l2_header", "no_cookie", "no_ip_header",
     "bad_version", "ip_options", "other_protocol", "no_l4_header"}

\* C7: when the cache misses and no policy is eligible for the frame, the
\* run leaves the frame as it was (TOS byte, IPv6 traffic-class bytes and
\* checksum) and writes nothing into any socket map.
C7_NoMatchLeavesFrameAndCache ==
    [][(ProgramRan /\ Readable(skb_in') /\ CacheMiss(skb_in')
        /\ ~SomeEligible(skb_in'))
       => (exit' = "no_match" /\ skb' = skb_in' /\ caches' = caches)]_vars

\* a frame that satisfied some declared field of a policy, but no policy
\* in full, left unchanged; its socket has no entry
C7_Witness ==
    /\ exit = "no_match"
    /\ skb = skb_in
    /\ \E i \in Slots : Score(FlowOf(skb_in), TableOfLast[i]) > 0
    /\ skb_in.cookie \notin DOMAIN MapOfLast

\* C8: a frame whose socket has an entry stored for a flow that differs in
\* any of the six fields is not served from the cache: the scan runs, and
\* the frame is marked by the scan's choice or left as it was.
C8_StaleEntryIsAMiss ==
    [][(ProgramRan /\ Readable(skb_in') /\ StaleEntry(skb_in'))
       => /\ exit' \in {"matched", "no_match"}
          /\ (exit' = "matched") <=> SomeEligible(skb_in')
          /\ exit' = "matched" =>
                /\ Eligible(FlowOf(skb_in'), TableFor(skb_in')[best'.match])
                /\ DscpOf(skb') = TableFor(skb_in')[best'.match].dscp_val
          /\ exit' = "no_match" => skb' = skb_in']_vars

\* after the run the socket still has the other flow's entry, with a DSCP
\* the frame does not carry
C8_Witness ==
    /\ exit = "no_match"
    /\ skb_in.cookie \in DOMAIN MapOfLast
    /\ FlowOfEntry(MapOfLast[skb_in.cookie]) # FlowOf(skb_in)
    /\ MapOfLast[skb_in.cookie].dscp_val # DscpOf(skb)

\* C9: when the selected socket map is full and the frame's socket has no
\* entry, a frame with an eligible policy is still marked with the chosen
\* policy's DSCP, no socket map changes, and the program returns
\* TC_ACT_PIPE.
C9_FullCacheStillMarks ==
    [][(ProgramRan /\ Readable(skb_in') /\ SomeEligible(skb_in')
        /\ skb_in'.cookie \notin DOMAIN MapFor(skb_in')
        /\ Cardinality(DOMAIN MapFor(skb_in')) = MAX_POLICIES)
       => /\ exit' = "matched"
          /\ Eligible(FlowOf(skb_in'), TableFor(skb_in')[best'.match])
          /\ DscpOf(skb') = TableFor(skb_in')[best'.match].dscp_val
          /\ caches' = caches
          /\ ret' = <<3>>]_vars

\* a frame marked with a new DSCP whose socket is not in the full map
C9_Witness ==
    /\ exit = "matched"
    /\ skb_in.cookie \notin DOMAIN MapOfLast
    /\ Cardinality(DOMAIN MapOfLast) = MAX_POLICIES
    /\ DscpOf(skb) = TableOfLast[best.match].dscp_val
    /\ DscpOf(skb) # DscpOf(skb_in)
    /\ ret = <<3>>

(***************************************************************************)
(* Property of the parsing (SpecParse)                                     *)
(***************************************************************************)
\* C10: a frame from which no tuple can be read is returned before the
\* cache lookup, with every byte as it came and no socket map changed.
C10_MalformedPassesUntouched ==
    [][(ProgramRan /\ Malformed(skb_in'))
       => (exit' \in BeforeLookup /\ skb' = skb_in' /\ caches' = caches)]_vars

\* an IPv4 frame with options on a flow that is cached for its socket,
\* returned as it came
C10_Witness ==
    /\ exit = "ip_options"
    /\ skb = skb_in
    /\ skb_in.cookie \in DOMAIN MapOfLast
    /\ FlowOfEntry(MapOfLast[skb_in.cookie]) = FlowOf(skb_in)

(***************************************************************************)
(* Property of the IPv4 socket maps (Spec)                                 *)
(***************************************************************************)
\* the 16 bytes are the v4-mapped form of the 4 bytes: words 0 and 1 zero,
\* word 2 the bytes 00 00 ff ff, word 3 the IPv4 address
IsV4MappedOf(a, v4) ==
    /\ Len(a) = 16
    /\ \A i \in 1 .. 10 : a[i] = 0
    /\ a[11] = 255 /\ a[12] = 255
    /\ \A i \in 1 .. 4 : a[12 + i] = v4[i]

IsV4MappedForm(a) == IsV4MappedOf(a, SubSeq(a, 13, 16))

Ipv4SocketMaps ==
    {ipv4_socket_to_policies_map_A, ipv4_socket_to_policies_map_B}

\* C11: every entry of the IPv4 socket maps holds both addresses in the
\* v4-mapped 128-bit form, and the entry a run stores for a frame holds the
\* frame's own two IPv4 addresses in word 3, so frames with equal addresses
\* give equal 128-bit values.
C11_CachedAddressesAreV4Mapped ==
    [][/\ \A m \in {ipv4_socket_to_policies_map_A', ipv4_socket_to_policies_map_B'} :
            \A c \in DOMAIN m :
                IsV4MappedForm(m[c].src_ip) /\ IsV4MappedForm(m[c].dst_ip)
       /\ (ProgramRan /\ exit' = "matched" /\ SaysIPv4(skb_in')
           /\ <<ipv4_socket_to_policies_map_A', ipv4_socket_to_policies_map_B'>>
                # <<ipv4_socket_to_policies_map_A, ipv4_socket_to_policies_map_B>>)
          => LET m == IF switch_comp_map = 1 THEN ipv4_socket_to_policies_map_A'
                                             ELSE ipv4_socket_to_policies_map_B'
             IN  /\ skb_in'.cookie \in DOMAIN m
                 /\ IsV4MappedOf(m[skb_in'.cookie].src_ip, skb_in'.saddr)
                 /\ IsV4MappedOf(m[skb_in'.cookie].dst_ip, skb_in'.daddr)]_vars

\* an IPv4 frame was matched and its socket's entry carries the frame's
\* addresses in v4-mapped form
C11_Witness ==
    /\ exit = "matched"
    /\ SaysIPv4(skb_in)
    /\ skb_in.cookie \in DOMAIN MapOfLast
    /\ IsV4MappedOf(MapOfLast[skb_in.cookie].src_ip, skb_in.saddr)
    /\ IsV4MappedOf(MapOfLast[skb_in.cookie].dst_ip, skb_in.daddr)

(***************************************************************************)
(* The vocabulary of the owner match: what the configuration, the owner    *)
(* table and a packet mean, stated without the program's own tests         *)
(***************************************************************************)
\* bit b (a power of two) is set in mask
Bit(mask, b) == (mask \div b) % 2 = 1

\* doze, power-save, restricted, low-power-standby
AllowCategories == {4, 16, 32, 64}

\* standby, OEM-deny-1, OEM-deny-2, OEM-deny-3
DenyCategories == {8, 512, 1024, 2048}

\* bpf_owner_match has been applied; cg_skb, cg_uid and cg_direction are
\* what it was given and cg_match holds what it returned
Called == cg_match # <<>>

SystemUid(uid) == uid < 10000

SaysIPv4Cg(p) == p.protocol = 8

\* the transport protocol byte of the packet's IP header
L4ProtoOf(p) == IF SaysIPv4Cg(p) THEN p.data[9] ELSE p.data[6]

\* the TCP flags byte, after the IPv4 header of IHL words or the 40-byte
\* IPv6 header
TcpFlagsOf(p) ==
    IF SaysIPv4Cg(p) THEN p.data[(p.data[0] % 16) * 4 + 13] ELSE p.data[53]

\* the packet is ESP, or TCP with the RST flag set
EspOrRst(p) ==
    \/ L4ProtoOf(p) = 50
    \/ L4ProtoOf(p) = 6 /\ Bit(TcpFlagsOf(p), 4)

RulesSlotReadable == 0 \in DOMAIN configuration_map

\* the category is enabled in the global bitmask
GlobalEnabled(c) == RulesSlotReadable /\ Bit(configuration_map[0], c)

KnownOwner(uid) == uid \in DOMAIN uid_owner_map

\* the owner's bitmask has the bit
OwnerHas(uid, b) == KnownOwner(uid) /\ Bit(uid_owner_map[uid].rule, b)

\* some category forces Drop for the owner
ForcedDrop(uid) ==
    \/ \E c \in AllowCategories : GlobalEnabled(c) /\ ~OwnerHas(uid, c)
    \/ \E c \in DenyCategories : GlobalEnabled(c) /\ OwnerHas(uid, c)

\* the call reached the restriction categories: an application uid and a
\* packet that is neither ESP nor TCP RST
Evaluated == Called /\ ~SystemUid(cg_uid) /\ ~EspOrRst(cg_skb)

\* ingress traffic on an interface other than loopback
NonLoopbackIngress == cg_direction = 1 /\ cg_skb.ifindex # 1

(***************************************************************************)
(* Properties of bpf_owner_match (SpecOwner)                               *)
(***************************************************************************)
\* C12: for every uid below AID_APP_START (10000) bpf_owner_match returns
\* Pass, whatever the enabled bitmask, the owner table, the direction and
\* the interface.
C12_SystemUidAlwaysPasses ==
    (Called /\ cg_uid < 10000) => cg_match = <<1>>

\* the last system uid passes on non-loopback ingress although a category
\* would force Drop and its entry restricts the interface to another one
C12_Witness ==
    /\ Called
    /\ cg_uid = 9999
    /\ ~EspOrRst(cg_skb)
    /\ ForcedDrop(cg_uid)
    /\ NonLoopbackIngress
    /\ OwnerHas(cg_uid, 128)
    /\ uid_owner_map[cg_uid].iif \notin {0, cg_skb.ifindex}
    /\ cg_match = <<1>>

\* C13: for an application uid and a packet that is neither ESP nor TCP
\* RST, an allow-list category (doze, power-save, restricted,
\* low-power-standby) that is enabled globally and missing from the owner's
\* bitmask gives Drop, whatever the other bits are.
C13_AllowListCategoryDrops ==
    (Evaluated
     /\ \E c \in AllowCategories : GlobalEnabled(c) /\ ~OwnerHas(cg_uid, c))
    => cg_match = <<0>>

\* only low-power-standby is enabled and the owner, who has other bits,
\* lacks it
C13_Witness ==
    /\ Evaluated
    /\ RulesSlotReadable /\ configuration_map[0] = 64
    /\ KnownOwner(cg_uid)
    /\ uid_owner_map[cg_uid].rule # 0
    /\ ~OwnerHas(cg_uid, 64)
    /\ cg_match = <<0>>

\* C14: for an application uid and a packet that is neither ESP nor TCP
\* RST, a deny-list category (standby, OEM-deny-1, -2, -3) that is enabled
\* globally and set in the owner's bitmask gives Drop, whatever the other
\* bits are.
C14_DenyListCategoryDrops ==
    (Evaluated
     /\ \E c \in DenyCategories : GlobalEnabled(c) /\ OwnerHas(cg_uid, c))
    => cg_match = <<0>>

\* only OEM-deny-3 is enabled and the owner has its bit
C14_Witness ==
    /\ Evaluated
    /\ RulesSlotReadable /\ configuration_map[0] = 2048
    /\ OwnerHas(cg_uid, 2048)
    /\ cg_match = <<0>>

\* C15: bpf_owner_match returns Drop only if some category forces it (an
\* allow-list category enabled and missing on the owner, or a deny-list
\* category enabled and set on the owner); when none does and the owner has
\* neither the interface bit nor the lockdown bit, the result is Pass for
\* every direction and interface.
C15_DropOnlyByCategory ==
    /\ (Called /\ cg_match = <<0>>) => ForcedDrop(cg_uid)
    /\ (Called /\ ~ForcedDrop(cg_uid)
        /\ ~OwnerHas(cg_uid, 128) /\ ~OwnerHas(cg_uid, 256))
       => cg_match = <<1>>

\* a category is enabled and the owner has a deny bit, but not of an
\* enabled category: non-loopback ingress passes
C15_Witness ==
    /\ Evaluated
    /\ RulesSlotReadable /\ configuration_map[0] # 0
    /\ \E c \in DenyCategories : OwnerHas(cg_uid, c)
    /\ ~ForcedDrop(cg_uid)
    /\ NonLoopbackIngress
    /\ cg_match = <<1>>

TaggedSystemDns(p) ==
    /\ p.cookie \in DOMAIN cookie_tag_map
    /\ cookie_tag_map[p.cookie].tag = <<65535, 65410>>
    /\ cookie_tag_map[p.cookie].uid = 1051

\* C18: bpf_traffic_account returns 0 (Drop) or 1 (Pass), never
\* DropUnlessExempt: when the owner match gave DropUnlessExempt the value
\* returned is Pass exactly when the socket's tag is TAG_SYSTEM_DNS and its
\* tagged uid is AID_DNS, and Drop otherwise.
C18_DropUnlessExemptResolved ==
    /\ cg_ret # <<>> => cg_ret \in {<<0>>, <<1>>}
    /\ (cg_ret # <<>> /\ cg_match = <<2>>)
       => cg_ret = IF TaggedSystemDns(cg_skb) THEN <<1>> ELSE <<0>>

\* the resolver's socket: the owner match gave DropUnlessExempt and the
\* program returned Pass
C18_Witness ==
    /\ cg_match = <<2>>
    /\ TaggedSystemDns(cg_skb)
    /\ cg_ret = <<1>>

(***************************************************************************)
(* Properties of bpf_owner_match on absent configuration (SpecOwner)       *)
(***************************************************************************)
\* the verdict for an enabled bitmask, an owner bitmask and an allowed
\* interface
Verdict(p, uid, direction, enabled, rules, iif) ==
    IF SystemUid(uid) \/ EspOrRst(p) THEN 1
    ELSE IF \/ \E c \in AllowCategories : Bit(enabled, c) /\ ~Bit(rules, c)
            \/ \E c \in DenyCategories : Bit(enabled, c) /\ Bit(rules, c)
    THEN 0
    ELSE IF /\ direction = 1 /\ p.ifindex # 1
            /\ \/ Bit(rules, 128) /\ iif # 0 /\ iif # p.ifindex
               \/ ~Bit(rules, 128) /\ Bit(rules, 256)
    THEN 2
    ELSE 1

\* C19: when the enabled-rules slot cannot be read the result is the one an
\* enabled bitmask of zero gives, and when the uid has no owner entry the
\* result is the one an owner bitmask of zero and an allowed interface of
\* zero give.
C19_AbsentConfigurationDefaults ==
    (Called /\ (~RulesSlotReadable \/ ~KnownOwner(cg_uid)))
    => cg_match =
         <<Verdict(cg_skb, cg_uid, cg_direction,
                   IF RulesSlotReadable THEN configuration_map[0] ELSE 0,
                   IF KnownOwner(cg_uid) THEN uid_owner_map[cg_uid].rule ELSE 0,
                   IF KnownOwner(cg_uid) THEN uid_owner_map[cg_uid].iif ELSE 0)>>

\* the slot is unreadable and the owner has the standby bit and lacks the
\* doze bit: no category drops
C19_Witness ==
    /\ Evaluated
    /\ ~RulesSlotReadable
    /\ KnownOwner(cg_uid)
    /\ Bit(uid_owner_map[cg_uid].rule, 8)
    /\ ~Bit(uid_owner_map[cg_uid].rule, 4)
    /\ cg_match = <<1>>

\* C20, as stated: a uid without an owner entry gets Pass for every enabled
\* bitmask, direction and interface.
C20_UnknownOwnerAlwaysPasses ==
    (Called /\ ~KnownOwner(cg_uid)) => cg_match = <<1>>

\* C20, as the program behaves: a uid without an owner entry is evaluated
\* with a zero bitmask, so for an application uid and a packet that is
\* neither ESP nor TCP RST the result is Drop when an allow-list category
\* (doze, power-save, restricted, low-power-standby) is enabled globally,
\* and Pass otherwise; it is never DropUnlessExempt.
C20_UnknownOwnerPassesUnlessAllowListEnabled ==
    (Evaluated /\ ~KnownOwner(cg_uid))
    => cg_match = IF \E c \in AllowCategories : GlobalEnabled(c)
                  THEN <<0>> ELSE <<1>>

\* an application uid without an entry passes on non-loopback ingress while
\* a deny-list category is enabled
C20_Witness ==
    /\ Evaluated
    /\ ~KnownOwner(cg_uid)
    /\ \E c \in DenyCategories : GlobalEnabled(c)
    /\ ~\E c \in AllowCategories : GlobalEnabled(c)
    /\ NonLoopbackIngress
    /\ cg_match = <<1>>

(***************************************************************************)
(* Property of the DSCP program's return value (Spec)                      *)
(***************************************************************************)
\* C28: schedcls_set_dscp_ether returns TC_ACT_PIPE (3) for every packet:
\* whether no tuple could be read from it, no policy matched, it was
\* served from the socket map, newly matched, or its insert into a full
\* socket map failed.
C28_AlwaysReturnsPipe ==
    /\ ret \in {<<>>, <<3>>}
    /\ exit # "idle" => ret = <<3>>

\* a frame served from the socket map and marked, returned with TC_ACT_PIPE
C28_Witness ==
    /\ exit = "cache_hit"
    /\ DscpOf(skb) # DscpOf(skb_in)
    /\ ret = <<3>>

(***************************************************************************)
(* Properties of one stats update (SpecStats): the step is a run of an     *)
(* xt_bpf program on the packet cg_skb', which returned 1 when it counted  *)
(***************************************************************************)
ZeroCounters == [rxPackets |-> 0, rxBytes |-> 0, txPackets |-> 0, txBytes |-> 0]

\* the counters of a key, zero when the table has no entry for it
CountersOf(map, k) == IF k \in DOMAIN map THEN map[k] ELSE ZeroCounters

\* the counters of the packet's direction grew by packets and bytes, the
\* counters of the other direction stayed
GrewBy(old, new, direction, packets, bytes) ==
    IF direction = 0
    THEN /\ new.txPackets = old.txPackets + packets
         /\ new.txBytes = old.txBytes + bytes
         /\ new.rxPackets = old.rxPackets
         /\ new.rxBytes = old.rxBytes
    ELSE /\ new.rxPackets = old.rxPackets + packets
         /\ new.rxBytes = old.rxBytes + bytes
         /\ new.txPackets = old.txPackets
         /\ new.txBytes = old.txBytes

\* the step counted the packet cg_skb' in the interface table
IfaceCounted ==
    /\ cg_ret' = <<1>>
    /\ cg_skb'.ifindex \in DOMAIN iface_stats_map'

\* 20 IP + 20 TCP + 12 option bytes for IPv4, 40 + 20 + 12 for IPv6
OverheadOf(p) == IF p.protocol = 8 THEN 52 ELSE 72

\* the number of segments: payload / mss rounded up
SegmentsOf(p) ==
    LET mss     == 1500 - OverheadOf(p)
        payload == p.len - OverheadOf(p)
    IN  CHOOSE n \in 1 .. 65535 : (n - 1) * mss < payload /\ payload <= n * mss

\* C21: for a packet of at most 1500 bytes, of either family, one stats
\* update adds exactly 1 to the packet counter and exactly the byte length
\* to the byte counter of the packet's direction.
C21_SmallPacketCountedAsIs ==
    [][(IfaceCounted /\ cg_skb'.len <= 1500)
       => GrewBy(CountersOf(iface_stats_map, cg_skb'.ifindex),
                 iface_stats_map'[cg_skb'.ifindex],
                 cg_direction', 1, cg_skb'.len)]_vars

\* an IPv6 packet of exactly 1500 bytes received on an interface that had
\* no entry
C21_Witness ==
    /\ cg_ret = <<1>>
    /\ cg_skb.len = 1500 /\ cg_skb.protocol # 8
    /\ cg_direction = 1
    /\ cg_skb.ifindex \in DOMAIN iface_stats_map
    /\ iface_stats_map[cg_skb.ifindex] =
         [rxPackets |-> 1, rxBytes |-> 1500, txPackets |-> 0, txBytes |-> 0]

\* C22: for a packet of L > 1500 bytes, with overhead 52 (IPv4) or 72
\* (IPv6), mss = 1500 - overhead and payload = L - overhead, one stats
\* update adds ceil(payload / mss) packets and packets * overhead + payload
\* = L + (packets - 1) * overhead bytes; IPv4 and L = 3000 give 3 packets
\* and 3104 bytes.
C22_LargePacketCountedAsSegments ==
    [][(IfaceCounted /\ cg_skb'.len > 1500)
       => LET o == OverheadOf(cg_skb')
              n == SegmentsOf(cg_skb')
          IN  /\ GrewBy(CountersOf(iface_stats_map, cg_skb'.ifindex),
                        iface_stats_map'[cg_skb'.ifindex],
                        cg_direction', n, n * o + (cg_skb'.len - o))
              /\ n * o + (cg_skb'.len - o) = cg_skb'.len + (n - 1) * o
              /\ (cg_skb'.protocol = 8 /\ cg_skb'.len = 3000)
                 => GrewBy(CountersOf(iface_stats_map, cg_skb'.ifindex),
                           iface_stats_map'[cg_skb'.ifindex],
                           cg_direction', 3, 3104)]_vars

\* an IPv4 packet of 3000 bytes sent on an interface that had no entry:
\* 3 packets, 3104 bytes
C22_Witness ==
    /\ cg_ret = <<1>>
    /\ cg_skb.len = 3000 /\ cg_skb.protocol = 8
    /\ cg_direction = 0
    /\ cg_skb.ifindex \in DOMAIN iface_stats_map
    /\ iface_stats_map[cg_skb.ifindex] =
         [rxPackets |-> 0, rxBytes |-> 0, txPackets |-> 3, txBytes |-> 3104]

(***************************************************************************)
(* Properties of concurrent invocations (SpecRace).  What an invocation    *)
(* did is read from its locals: the packet, the direction, the key and the *)
(* selector values it read, one for each per-key update it made.           *)
(***************************************************************************)
AllDone == \A c \in CPUS : cpu[c].pc = "done"

\* the packets and bytes a packet counts for
DeltaOf(p) ==
    IF p.len <= 1500 THEN [packets |-> 1, bytes |-> p.len]
    ELSE [packets |-> SegmentsOf(p),
          bytes   |-> SegmentsOf(p) * OverheadOf(p) + (p.len - OverheadOf(p))]

\* the four counters one update of the invocation adds
RunValue(l) ==
    IF l.direction = 0
    THEN [rxPackets |-> 0, rxBytes |-> 0,
          txPackets |-> DeltaOf(l.p).packets, txBytes |-> DeltaOf(l.p).bytes]
    ELSE [rxPackets |-> DeltaOf(l.p).packets, rxBytes |-> DeltaOf(l.p).bytes,
          txPackets |-> 0, txBytes |-> 0]

AddValues(a, b) ==
    [rxPackets |-> a.rxPackets + b.rxPackets, rxBytes |-> a.rxBytes + b.rxBytes,
     txPackets |-> a.txPackets + b.txPackets, txBytes |-> a.txBytes + b.txBytes]

RECURSIVE SumOfRuns(_, _)
SumOfRuns(from, cs) ==
    IF cs = {} THEN from
    ELSE LET c == CHOOSE c \in cs : TRUE
         IN  AddValues(RunValue(cpu[c]), SumOfRuns(from, cs \ {c}))

\* the buffer a selector value names
BufferNamedBy(v) == IF v = 0 THEN "A" ELSE IF v = 1 THEN "B" ELSE "none"

BufferNamed(X) == IF X = "A" THEN stats_map_A ELSE stats_map_B

Tag0(k) == [k EXCEPT !.tag = NoTag]

\* the invocation made an update of key k in buffer X: a tagged packet's
\* first update is of its key and its second of the key with tag 0, an
\* untagged packet's only update is of its key
WroteTo(l, X, k) ==
    LET n == Len(l.selectedMap)
    IN  IF l.key.tag # NoTag
        THEN \/ n >= 1 /\ BufferNamedBy(l.selectedMap[1]) = X /\ k = l.key
             \/ n >= 2 /\ BufferNamedBy(l.selectedMap[2]) = X /\ k = Tag0(l.key)
        ELSE n >= 1 /\ BufferNamedBy(l.selectedMap[1]) = X /\ k = l.key

RaceKeys == {cpu[c].key : c \in CPUS} \cup {Tag0(cpu[c].key) : c \in CPUS}

\* the CPU whose step it is
Stepped(c) == cpu'[c] # cpu[c]

\* the per-key update the CPU is in has a buffer
InBufferUpdate(l) ==
    /\ l.upd \in {"tag", "tag0"}
    /\ l.pc \in {"lookup", "insert", "relookup", "packets", "bytes"}

ValueRead(l) == l.selectedMap[Len(l.selectedMap)]

\* after all invocations the entries of both buffers are exactly the keys
\* updated, each holding the sum, from zero, of the updates made of it
BuffersHoldTheSums ==
    \A X \in {"A", "B"} :
        /\ DOMAIN BufferNamed(X)
             = {k \in RaceKeys : \E c \in CPUS : WroteTo(cpu[c], X, k)}
        /\ \A k \in DOMAIN BufferNamed(X) :
             BufferNamed(X)[k]
               = SumOfRuns(ZeroCounters, {c \in CPUS : WroteTo(cpu[c], X, k)})

\* an insert creates an absent key's entry with four zero counters and
\* leaves an entry that exists as it is
InsertCreatesOrKeeps ==
    \A c \in CPUS :
        (Stepped(c) /\ cpu[c].pc = "insert" /\ InBufferUpdate(cpu[c]))
        => LET X == BufferNamedBy(ValueRead(cpu[c]))
               k == IF cpu[c].upd = "tag" THEN cpu[c].key ELSE Tag0(cpu[c].key)
           IN  IF k \in DOMAIN BufferNamed(X)
               THEN UNCHANGED <<stats_map_A, stats_map_B>>
               ELSE /\ k \in DOMAIN BufferNamed(X)'
                    /\ BufferNamed(X)'[k] = ZeroCounters

\* C23: a stats update of an absent key (with free capacity) creates the
\* entry with four zero counters and then adds, so the entry holds exactly
\* the packet's delta; when invocations race to create the same key the
\* losing insert does not overwrite the entry and all increments end up in
\* the one entry.
C23_GetOrCreate ==
    /\ [](AllDone => BuffersHoldTheSums)
    /\ [][InsertCreatesOrKeeps]_vars

\* two CPUs have both missed the same key in the same buffer and both made
\* their insert: one of the two inserts was refused
C23_Witness ==
    \E c, d \in CPUS :
        /\ c # d
        /\ cpu[c].pc = "relookup" /\ cpu[d].pc = "relookup"
        /\ InBufferUpdate(cpu[c]) /\ InBufferUpdate(cpu[d])
        /\ KeyOf(cpu[c]) = KeyOf(cpu[d])
        /\ BufferNamedBy(ValueRead(cpu[c])) = BufferNamedBy(ValueRead(cpu[d]))
        /\ KeyOf(cpu[c]) \in DOMAIN BufferNamed(BufferNamedBy(ValueRead(cpu[c])))

\* C24: for any interleaving of concurrent updates of the same existing
\* key, once all have completed each counter equals its initial value plus
\* the sum of the deltas of all the updates.
C24_NoLostIncrements ==
    AllDone
    => \A u \in DOMAIN app_uid_stats_map :
         app_uid_stats_map[u]
           = SumOfRuns(AppStatsBefore,
                       {c \in CPUS : cpu[c].uid = u /\ cpu[c].selectedMap # <<>>})

\* both CPUs have completed an update of the application's entry, one with
\* a sent and one with a received packet
C24_Witness ==
    /\ AllDone
    /\ \E c, d \in CPUS :
         /\ cpu[c].direction = 0 /\ cpu[d].direction = 1
         /\ cpu[c].uid = cpu[d].uid
         /\ cpu[c].selectedMap # <<>> /\ cpu[d].selectedMap # <<>>
         /\ cpu[c].uid \in DOMAIN app_uid_stats_map
         /\ app_uid_stats_map[cpu[c].uid].txPackets > AppStatsBefore.txPackets
         /\ app_uid_stats_map[cpu[c].uid].rxPackets > AppStatsBefore.rxPackets

\* C25: a per-key stats update that read selector value A writes only
\* stats_map_A, one that read B writes only stats_map_B; the buffer not
\* named by the value read is left unchanged by that update.
C25_SelectorValueNamesTheBuffer ==
    [][\A c \in CPUS :
         (Stepped(c) /\ InBufferUpdate(cpu[c]))
         => /\ ValueRead(cpu[c]) = 0 => UNCHANGED stats_map_B
            /\ ValueRead(cpu[c]) = 1 => UNCHANGED stats_map_A
            /\ UNCHANGED app_uid_stats_map
            /\ cpu[c].pc \in {"packets", "bytes"}
               => /\ ValueRead(cpu[c]) = 0 => stats_map_A' # stats_map_A
                  /\ ValueRead(cpu[c]) = 1 => stats_map_B' # stats_map_B]_vars

\* an update that read B has added its packets to stats_map_B, which holds
\* them, while stats_map_A has no entry
C25_Witness ==
    \E c \in CPUS :
        /\ cpu[c].pc = "bytes" /\ cpu[c].upd = "tag"
        /\ ValueRead(cpu[c]) = 1
        /\ stats_map_A = NoStats
        /\ cpu[c].key \in DOMAIN stats_map_B
        /\ stats_map_B[cpu[c].key].txPackets = 1

SelectorNow == configuration_map[1]

\* buffer X is the inactive one before and after the step
StaysInactive(X) ==
    /\ BufferNamedBy(SelectorNow) # X
    /\ BufferNamedBy(SelectorNow') # X

\* the invocation is in progress and has read the value that names X
ReadBefore(l, X) ==
    /\ l.pc \notin {"idle", "done"}
    /\ \E i \in 1 .. Len(l.selectedMap) : BufferNamedBy(l.selectedMap[i]) = X

\* C26, as stated: once the selector is flipped from X to Y, no data-path
\* invocation changes any entry of X while X is the inactive buffer,
\* invocations in progress at the flip included.
C26_InactiveBufferNeverChanges ==
    [][/\ StaysInactive("A") => UNCHANGED stats_map_A
       /\ StaysInactive("B") => UNCHANGED stats_map_B]_vars

\* C26, amended: while X is the inactive buffer an entry of X is changed
\* only by an invocation in progress that read the selector when it named
\* X, in an update for which it uses that value; no invocation comes to
\* hold the value X while X is inactive, so X is stable once the
\* invocations that read X have completed.
C26_InactiveBufferChangedOnlyByEarlierReaders ==
    [][\A X \in {"A", "B"} :
         StaysInactive(X)
         => /\ BufferNamed(X)' # BufferNamed(X)
               => \E c \in CPUS : /\ Stepped(c)
                                  /\ ReadBefore(cpu[c], X)
                                  /\ InBufferUpdate(cpu[c])
                                  /\ BufferNamedBy(ValueRead(cpu[c])) = X
            /\ \A c \in CPUS : ReadBefore(cpu'[c], X) => ReadBefore(cpu[c], X)
            /\ (\A c \in CPUS : ~ReadBefore(cpu[c], X))
               => UNCHANGED BufferNamed(X)]_vars

\* the selector names B, an invocation that read B has completed, and an
\* invocation that read A has added its packets to stats_map_A and is about
\* to add its bytes
C26_Witness ==
    /\ SelectorNow = 1
    /\ \E c, d \in CPUS :
         /\ cpu[d].pc = "done" /\ cpu[d].selectedMap = <<1>>
         /\ cpu[c].pc = "bytes" /\ InBufferUpdate(cpu[c])
         /\ ValueRead(cpu[c]) = 0
         /\ KeyOf(cpu[c]) \in DOMAIN stats_map_A

StatsTables == <<stats_map_A, stats_map_B, app_uid_stats_map>>

\* C27: over any interleaving of data-path invocations, with no drain or
\* delete, no rxBytes, rxPackets, txBytes or txPackets of any stats entry
\* decreases and no stats entry is removed.
C27_CountersMonotonic ==
    [][\A i \in 1 .. 3 :
         \A k \in DOMAIN StatsTables[i] :
            /\ k \in DOMAIN StatsTables[i]'
            /\ StatsTables[i]'[k].rxPackets >= StatsTables[i][k].rxPackets
            /\ StatsTables[i]'[k].rxBytes >= StatsTables[i][k].rxBytes
            /\ StatsTables[i]'[k].txPackets >= StatsTables[i][k].txPackets
            /\ StatsTables[i]'[k].txBytes >= StatsTables[i][k].txBytes]_vars

\* all invocations have completed; a buffer's entry for tag 0 holds the
\* packets of two invocations and the application's entry has grown
C27_Witness ==
    /\ AllDone
    /\ \E c, d \in CPUS :
         /\ c # d
         /\ cpu[c].selectedMap # <<>> /\ cpu[d].selectedMap # <<>>
         /\ cpu[c].direction = cpu[d].direction
         /\ \E X \in {"A", "B"} :
              /\ Tag0(cpu[c].key) \in DOMAIN BufferNamed(X)
              /\ BufferNamed(X)[Tag0(cpu[c].key)]
                   = AddValues(RunValue(cpu[c]), RunValue(cpu[d]))
         /\ app_uid_stats_map[cpu[c].uid]
              = AddValues(AppStatsBefore, AddValues(RunValue(cpu[c]), RunValue(cpu[d])))

(***************************************************************************)
(* Properties of what one run of a cgroup program records (SpecAccount,    *)
(* SpecFull): the step is a run on the packet cg_skb' in direction         *)
(* cg_direction', cg_match' is what bpf_owner_match returned               *)
(***************************************************************************)
TaggedSocket(p) == p.cookie \in DOMAIN cookie_tag_map

\* the uid the packet is counted for: the tagged uid, but the socket's uid
\* for the resolver's DNS tag
AcctUid(p) ==
    IF TaggedSocket(p) /\ ~TaggedSystemDns(p) THEN cookie_tag_map[p.cookie].uid
    ELSE p.uid

AcctTag(p) == IF TaggedSocket(p) THEN cookie_tag_map[p.cookie].tag ELSE <<0, 0>>

AcctKey(p) ==
    [uid |-> AcctUid(p), tag |-> AcctTag(p),
     counterSet |-> IF AcctUid(p) \in DOMAIN uid_counterset_map
                    THEN uid_counterset_map[AcctUid(p)] ELSE 0,
     ifaceIndex |-> p.ifindex]

SelectorReadable == 1 \in DOMAIN configuration_map

\* the buffer the selector names
ActiveBuffer == BufferNamed(BufferNamedBy(configuration_map[1]))

\* the run did not return for CLAT and did not return for an outbound
\* packet that the owner match drops
PastEgressDrop ==
    /\ cg_match' # <<>>
    /\ ~(cg_direction' = 0 /\ cg_match' = <<0>>)

\* the value a run returns for what the owner match returned
ReturnFor(p, match) ==
    IF match = 2 THEN (IF TaggedSystemDns(p) THEN 1 ELSE 0) ELSE match

\* C29: when the active stats buffer is at capacity and the packet's key is
\* absent, the update changes no counter of that buffer and creates no
\* entry, and bpf_traffic_account returns the verdict it returns when the
\* insert succeeds: the one the owner match and the DNS tag determine.
C29_FullTableRecordsNothing ==
    [][(PastEgressDrop /\ SelectorReadable
        /\ Cardinality(DOMAIN ActiveBuffer) >= STATS_MAP_SIZE)
       => LET k  == AcctKey(cg_skb')
              k0 == Tag0(AcctKey(cg_skb'))
          IN  /\ DOMAIN ActiveBuffer' = DOMAIN ActiveBuffer
              /\ \A j \in DOMAIN ActiveBuffer :
                    j \notin {k, k0} => ActiveBuffer'[j] = ActiveBuffer[j]
              /\ (k \notin DOMAIN ActiveBuffer /\ k0 \notin DOMAIN ActiveBuffer)
                 => ActiveBuffer' = ActiveBuffer
              /\ (k \notin DOMAIN ActiveBuffer /\ k0 \in DOMAIN ActiveBuffer)
                 => ActiveBuffer'[k0] # ActiveBuffer[k0]
              /\ cg_ret' = <<ReturnFor(cg_skb', cg_match'[1])>>]_vars

\* a packet of a tagged socket has passed and is in app_uid_stats_map,
\* stats_map_A is full and has neither of the packet's two keys
C29_Witness ==
    /\ cg_ret = <<1>>
    /\ SelectorReadable /\ configuration_map[1] = 0
    /\ Cardinality(DOMAIN stats_map_A) = STATS_MAP_SIZE
    /\ AcctTag(cg_skb) # <<0, 0>>
    /\ AcctKey(cg_skb) \notin DOMAIN stats_map_A
    /\ Tag0(AcctKey(cg_skb)) \notin DOMAIN stats_map_A
    /\ AcctUid(cg_skb) \in DOMAIN app_uid_stats_map

\* the tables have room for the entries the run has to create
RoomFor(p) ==
    /\ Cardinality(DOMAIN ActiveBuffer \cup {AcctKey(p), Tag0(AcctKey(p))})
         <= STATS_MAP_SIZE
    /\ Cardinality(DOMAIN app_uid_stats_map \cup {AcctUid(p)}) <= APP_STATS_MAP_SIZE

\* the entry of key k in the table grew by the packet
RecordedIn(old, new, k) ==
    /\ k \in DOMAIN new
    /\ GrewBy(CountersOf(old, k), new[k], cg_direction',
              DeltaOf(cg_skb').packets, DeltaOf(cg_skb').bytes)

\* C30: when the direction is egress and the owner match is Drop,
\* bpf_traffic_account returns Drop without changing any stats table;
\* every other non-CLAT packet (every egress packet the owner match does
\* not drop and every ingress packet, those whose verdict is Drop
\* included) is recorded when the selector slot is readable: in
\* app_uid_stats_map and in the selected buffer under its key and under
\* tag 0, the tables having room for its entries.
C30_EgressDropNotCounted ==
    [][/\ (cg_direction' = 0 /\ cg_match' = <<0>>)
          => /\ cg_ret' = <<0>>
             /\ UNCHANGED stats_maps
       /\ (PastEgressDrop /\ SelectorReadable /\ RoomFor(cg_skb'))
          => /\ RecordedIn(app_uid_stats_map, app_uid_stats_map', AcctUid(cg_skb'))
             /\ RecordedIn(ActiveBuffer, ActiveBuffer', AcctKey(cg_skb'))
             /\ RecordedIn(ActiveBuffer, ActiveBuffer', Tag0(AcctKey(cg_skb')))]_vars

\* an inbound packet that the standby category drops has been counted
C30_Witness ==
    /\ cg_direction = 1
    /\ cg_match = <<0>> /\ cg_ret = <<0>>
    /\ SelectorReadable
    /\ AcctUid(cg_skb) \in DOMAIN app_uid_stats_map
    /\ app_uid_stats_map[AcctUid(cg_skb)].rxPackets = 1
    /\ Tag0(AcctKey(cg_skb)) \in DOMAIN ActiveBuffer
    /\ ActiveBuffer[Tag0(AcctKey(cg_skb))].rxPackets = 1

\* an outbound packet that the standby category drops has been returned
\* Drop after a packet was counted: the tables hold that one packet
C30_WitnessEgress ==
    /\ cg_direction = 0
    /\ cg_match = <<0>> /\ cg_ret = <<0>>
    /\ SelectorReadable
    /\ PacketsIn(app_uid_stats_map, DOMAIN app_uid_stats_map) = 1

\* the socket's uid or the uid its tag names is AID_CLAT (1029)
ClatTraffic(p) ==
    \/ p.uid = 1029
    \/ TaggedSocket(p) /\ cookie_tag_map[p.cookie].uid = 1029

\* C31: when the socket uid or the tagged uid is AID_CLAT,
\* bpf_traffic_account returns Pass whatever the owner restrictions and
\* the global configuration are, and no stats table is modified.
C31_ClatPassesUncounted ==
    [][ClatTraffic(cg_skb')
       => /\ cg_ret' = <<1>>
          /\ cg_match' = <<>>
          /\ UNCHANGED stats_maps]_vars

\* an outbound packet of an application's socket tagged AID_CLAT has
\* passed, after a packet was counted, although standby is enabled and
\* denies the application
C31_Witness ==
    /\ cg_skb.uid # 1029 /\ ClatTraffic(cg_skb)
    /\ cg_direction = 0
    /\ GlobalEnabled(8) /\ OwnerHas(cg_skb.uid, 8)
    /\ cg_ret = <<1>>
    /\ PacketsIn(app_uid_stats_map, DOMAIN app_uid_stats_map) = 1

\* the protocol field of the IP header says ESP (50), or says TCP (6) and
\* the flags byte behind the IP header has the RST bit (4)
SkipsOwnerMatch(p) ==
    LET proto == IF p.protocol = 8 THEN p.data[9] ELSE p.data[6]
        flags == IF p.protocol = 8 THEN p.data[(p.data[0] % 16) * 4 + 13]
                 ELSE p.data[40 + 13]
    IN  \/ proto = 50
        \/ proto = 6 /\ (flags \div 4) % 2 = 1

\* C34: for an ESP packet and for a TCP packet with the RST flag set
\* bpf_owner_match returns Pass for every uid, global configuration,
\* direction and interface, even when a restriction category would
\* otherwise force Drop.
C34_EspAndRstBypass ==
    (Called /\ SkipsOwnerMatch(cg_skb)) => cg_match = <<1>>

\* a TCP RST packet with IP options of an application passes on
\* non-loopback ingress although a category forces Drop and the owner's
\* entry allows another interface only
C34_Witness ==
    /\ Called
    /\ cg_uid >= 10000
    /\ L4ProtoOf(cg_skb) = 6 /\ SkipsOwnerMatch(cg_skb)
    /\ cg_skb.data[0] = 70
    /\ ForcedDrop(cg_uid)
    /\ NonLoopbackIngress
    /\ OwnerHas(cg_uid, 128)
    /\ uid_owner_map[cg_uid].iif \notin {0, cg_skb.ifindex}
    /\ cg_match = <<1>>

(***************************************************************************)
(* Properties of the marking (SpecMark): skb_in' is the frame a run of the *)
(* program received and skb' the frame it leaves                           *)
(***************************************************************************)
\* the frame the full rule scan leaves for the frame p, were the socket
\* map without an entry for its socket: p itself when no policy is chosen
FullScanLeaves(p) ==
    LET t == ExtractTuple(p, SaysIPv4(p), TRUE)
        b == ScanPolicies(TableFor(p), t, p.ifindex, 0, NoBest)
    IN  IF b.score > 0
        THEN StorePolicyMark(p, SaysIPv4(p), t, TableFor(p)[b.match].dscp_val)
        ELSE p

\* C32: with the rule table and the cache selector as they were when a
\* frame was matched and cached, a second frame of the same socket and the
\* same tuple receives through the cache-hit path exactly the marking
\* bytes the full rule scan would give it.
C32_CacheHitMarksAsScan ==
    [][(ProgramRan /\ exit' = "cache_hit")
       => /\ SomeEligible(skb_in')
          /\ skb' = FullScanLeaves(skb_in')
          /\ skb'.b0 = FullScanLeaves(skb_in').b0
          /\ skb'.b1 = FullScanLeaves(skb_in').b1]_vars

\* an IPv4 frame with DSCP 0 and ECN 3 took the cache-hit path and left
\* with the DSCP of the policy for destination port 257 and its ECN bits
C32_Witness ==
    /\ exit = "cache_hit"
    /\ SaysIPv4(skb_in)
    /\ skb_in.b1 = 3
    /\ skb_in.dport = 257
    /\ skb.b1 = 43
    /\ skb_in.cookie \in DOMAIN MapOfLast
    /\ MapOfLast[skb_in.cookie].dscp_val = 10

\* the frame was remarked: the cache-hit path or the newly-matched path
Remarked == exit \in {"cache_hit", "matched"}

\* the DSCP that was applied: the entry's on a cache hit, the chosen
\* policy's after a scan
AppliedDscp ==
    IF exit = "cache_hit" THEN MapOfLast[skb_in.cookie].dscp_val
    ELSE TableOfLast[best.match].dscp_val

\* the two ECN bits: bits 1..0 of the IPv4 TOS byte, bits 5..4 of the
\* second byte of the IPv6 header
EcnOf(p) == IF SaysIPv4(p) THEN p.b1 % 4 ELSE (p.b1 \div 16) % 4

\* the top four bits of the IPv6 flow label: bits 3..0 of the second byte
FlowLabelBitsOf(p) == p.b1 % 16

\* every field of the frame but the two first bytes of the IP header and
\* the IPv4 header checksum is as it was
RestUntouched ==
    [skb EXCEPT !.b0 = 0, !.b1 = 0, !.check = 0]
      = [skb_in EXCEPT !.b0 = 0, !.b1 = 0, !.check = 0]

\* what C35 states of the frame a run leaves: remarking changes only the
\* six DSCP bits; on IPv4 the new TOS is (dscp << 2) | (tos & 3); on IPv6 the version nibble stays 6
\* and the two ECN bits and the four flow-label bits of the second byte
\* keep their values, on the cache-hit and on the newly-matched path.
OnlyDscpBitsChanged ==
    Remarked
    => /\ RestUntouched
       /\ DscpOf(skb) = AppliedDscp
       /\ EcnOf(skb) = EcnOf(skb_in)
       /\ SaysIPv4(skb_in)
          => /\ skb.b1 = AppliedDscp * 4 + (skb_in.b1 % 4)
             /\ skb.b0 = skb_in.b0
       /\ ~SaysIPv4(skb_in)
          => /\ skb.b0 \div 16 = 6
             /\ FlowLabelBitsOf(skb) = FlowLabelBitsOf(skb_in)

\* C35, as stated, of every run of the program: only the six DSCP bits
\* change, in both families and on both paths.
C35_OnlyDscpBitsChange == [][ProgramRan => OnlyDscpBitsChanged']_vars

\* what the code does to the frame a run leaves: remarking sets the six DSCP bits to the policy's DSCP on
\* both paths.  On IPv4 the ECN bits are preserved, the new TOS is
\* (dscp << 2) | (tos & 3) and the header checksum is adjusted; nothing
\* else changes.  On IPv6 the version nibble stays 6, but the second byte
\* becomes ((dscp & 3) << 6) + (old byte >> 6): the two ECN bits are
\* cleared and the four flow-label bits are replaced by 00 followed by the
\* two low bits of the DSCP the frame carried before.
DscpSetEcnKeptOnIPv4Only ==
    Remarked
    => /\ RestUntouched
       /\ DscpOf(skb) = AppliedDscp
       /\ SaysIPv4(skb_in)
          => /\ skb.b1 = AppliedDscp * 4 + (skb_in.b1 % 4)
             /\ EcnOf(skb) = EcnOf(skb_in)
             /\ skb.b0 = skb_in.b0
       /\ ~SaysIPv4(skb_in)
          => /\ skb.b0 \div 16 = 6
             /\ EcnOf(skb) = 0
             /\ FlowLabelBitsOf(skb) = DscpOf(skb_in) % 4
             /\ skb.b1 = (AppliedDscp % 4) * 64 + (skb_in.b1 \div 64)
             /\ skb.check = skb_in.check

\* C35, amended, of every run of the program: the six DSCP bits are set;
\* IPv4 keeps the ECN bits and adjusts the checksum; IPv6 keeps the
\* version nibble, clears the ECN bits and overwrites the four flow-label
\* bits.
C35_DscpSetEcnKeptOnIPv4Only == [][ProgramRan => DscpSetEcnKeptOnIPv4Only']_vars

\* an IPv6 frame with ECN 1 and flow-label bits 5 took the cache-hit path
\* and left with DSCP 46, ECN 0 and flow-label bits 2
C35_Witness ==
    /\ exit = "cache_hit"
    /\ ~SaysIPv4(skb_in)
    /\ EcnOf(skb_in) = 1 /\ FlowLabelBitsOf(skb_in) = 5
    /\ DscpOf(skb) = 46
    /\ EcnOf(skb) = 0 /\ FlowLabelBitsOf(skb) = 2

\* an IPv4 frame with DSCP 63 and ECN 3 was matched and left with DSCP 46
\* and ECN 3
C35_WitnessIPv4 ==
    /\ exit = "matched"
    /\ SaysIPv4(skb_in)
    /\ skb_in.b1 = 255
    /\ skb.b1 = 187

(***************************************************************************)
(* Properties of the per-uid totals (SpecTally)                            *)
(***************************************************************************)
\* the step is a run of a cgroup program that counts its packet, the
\* tables having room for the entries it has to create
CountedRun ==
    /\ configuration_map' = configuration_map
    /\ cg_ret' # <<>>
    /\ PastEgressDrop
    /\ SelectorReadable
    /\ RoomFor(cg_skb')

RECURSIVE SumOfEntries(_, _)
SumOfEntries(map, keys) ==
    IF keys = {} THEN ZeroCounters
    ELSE LET k == CHOOSE k \in keys : TRUE
         IN  AddValues(map[k], SumOfEntries(map, keys \ {k}))

\* the sum, over all interfaces and counter sets, of the tag-0 entries of
\* uid u in a buffer
TagZeroSum(map, u) ==
    SumOfEntries(map, {k \in DOMAIN map : k.uid = u /\ k.tag = <<0, 0>>})

TallyUids ==
    DOMAIN app_uid_stats_map
      \cup {k.uid : k \in DOMAIN stats_map_A} \cup {k.uid : k \in DOMAIN stats_map_B}

\* the per-uid entry equals the sum of the uid's tag-0 entries of both
\* buffers
TotalsAgree ==
    \A u \in TallyUids :
        CountersOf(app_uid_stats_map, u)
          = AddValues(TagZeroSum(stats_map_A, u), TagZeroSum(stats_map_B, u))

\* no table is full: no insert has failed so far, the tables never shrink
TablesHaveRoom ==
    /\ Cardinality(DOMAIN stats_map_A) < STATS_MAP_SIZE
    /\ Cardinality(DOMAIN stats_map_B) < STATS_MAP_SIZE
    /\ Cardinality(DOMAIN app_uid_stats_map) < APP_STATS_MAP_SIZE

\* every entry of the table other than those of the keys is as it was
OthersKept(old, new, keys) ==
    /\ DOMAIN new \subseteq DOMAIN old \cup keys
    /\ \A j \in DOMAIN old : j \in DOMAIN new /\ (j \notin keys => new[j] = old[j])

\* a counted run adds the packet once to the per-uid entry, once to the
\* entry of its key and, when it has a tag, once to the entry of its key
\* with tag 0, all in the selected buffer; it changes nothing else, and the
\* totals that agreed before agree after
CountedUnderTagAndTagZero ==
    CountedRun
    => LET k  == AcctKey(cg_skb')
           k0 == Tag0(AcctKey(cg_skb'))
       IN  /\ RecordedIn(app_uid_stats_map, app_uid_stats_map', AcctUid(cg_skb'))
           /\ OthersKept(app_uid_stats_map, app_uid_stats_map', {AcctUid(cg_skb')})
           /\ RecordedIn(ActiveBuffer, ActiveBuffer', k)
           /\ RecordedIn(ActiveBuffer, ActiveBuffer', k0)
           /\ OthersKept(ActiveBuffer, ActiveBuffer', {k, k0})
           /\ configuration_map[1] = 0 => stats_map_B' = stats_map_B
           /\ configuration_map[1] = 1 => stats_map_A' = stats_map_A
           /\ TotalsAgree => TotalsAgree'

\* C33: a counted packet with a non-zero tag increments both the (uid,
\* tag, iface, set) entry and the (uid, 0, iface, set) entry of the
\* selected buffer, and every counted packet increments the per-uid entry
\* of app_uid_stats_map once; with no insert failure, no drain and a
\* selector that is always A or B, after any sequence of invocations the
\* per-uid entry equals the sum over both buffers, all interfaces and all
\* counter sets of the uid's tag-0 entries.
C33_TagZeroEntriesSumToUidTotal ==
    /\ [](TablesHaveRoom => TotalsAgree)
    /\ [][CountedUnderTagAndTagZero]_vars

\* the application has tag-0 entries in both buffers, one of them made by
\* a packet of a tagged socket whose tagged entry holds the same packet,
\* and its per-uid entry holds both packets
C33_Witness ==
    /\ TotalsAgree
    /\ \E k \in DOMAIN stats_map_A, j \in DOMAIN stats_map_B :
         /\ k.tag = <<0, 0>> /\ j.tag # <<0, 0>>
         /\ k.uid = j.uid
         /\ Tag0(j) \in DOMAIN stats_map_B
         /\ stats_map_B[Tag0(j)] = stats_map_B[j]
         /\ k.uid \in DOMAIN app_uid_stats_map
         /\ app_uid_stats_map[k.uid]
              = AddValues(stats_map_A[k], stats_map_B[Tag0(j)])
         /\ app_uid_stats_map[k.uid] # stats_map_A[k]

(***************************************************************************)
(* Properties of the two per-key updates of one invocation (SpecRace)      *)
(***************************************************************************)
\* the invocation of a tagged packet has made both its per-key updates
MadeBothUpdates(l) ==
    /\ l.pc = "done"
    /\ l.key.tag # NoTag
    /\ Len(l.selectedMap) = 2

\* both updates went to buffer X: it holds the entry of the key and the
\* entry of the key with tag 0
BothIn(l, X) ==
    /\ WroteTo(l, X, l.key) /\ l.key \in DOMAIN BufferNamed(X)
    /\ WroteTo(l, X, Tag0(l.key)) /\ Tag0(l.key) \in DOMAIN BufferNamed(X)

\* C36, as stated: for a tagged packet the (uid, tag) update and the
\* (uid, 0) update of one bpf_traffic_account invocation go to the same
\* stats buffer, also when the control plane flips the selector while the
\* invocation is running.
C36_BothUpdatesInOneBuffer ==
    \A c \in CPUS :
        MadeBothUpdates(cpu[c]) => \E X \in {"A", "B"} : BothIn(cpu[c], X)

\* each update is in the buffer named by the value loaded for it
EachWhereItsLoadSays ==
    \A c \in CPUS :
        MadeBothUpdates(cpu[c])
        => /\ cpu[c].key \in DOMAIN BufferNamed(BufferNamedBy(cpu[c].selectedMap[1]))
           /\ Tag0(cpu[c].key)
                \in DOMAIN BufferNamed(BufferNamedBy(cpu[c].selectedMap[2]))

\* the load for the second update gives the value of the first load unless
\* the slot holds another value at that moment, and then it gives the
\* slot's value
SecondLoad ==
    \A c \in CPUS :
        (Stepped(c) /\ cpu[c].pc = "deref" /\ Len(cpu[c].selectedMap) = 1)
        => /\ Len(cpu'[c].selectedMap) = 2
           /\ cpu'[c].selectedMap[1] = cpu[c].selectedMap[1]
           /\ \/ cpu'[c].selectedMap[2] = cpu[c].selectedMap[1]
              \/ /\ cpu'[c].selectedMap[2] = SelectorNow
                 /\ SelectorNow # cpu[c].selectedMap[1]

\* C36, amended: each of the two updates goes to the buffer named by the
\* selector value loaded for that update; the two loads give the same
\* buffer when the slot holds at the second load the value it held at the
\* first, and a flip between the two loads can send the (uid, tag) update
\* to one buffer and the (uid, 0) update to the other.
C36_EachUpdateFollowsItsOwnLoad ==
    /\ []EachWhereItsLoadSays
    /\ [][SecondLoad]_vars

\* an invocation of the tagged socket's packet has completed with its
\* tagged entry in stats_map_A alone and its tag-0 entry in stats_map_B
\* alone
C36_Witness ==
    \E c \in CPUS :
        /\ MadeBothUpdates(cpu[c])
        /\ cpu[c].selectedMap = <<0, 1>>
        /\ cpu[c].key \in DOMAIN stats_map_A
        /\ cpu[c].key \notin DOMAIN stats_map_B
        /\ Tag0(cpu[c].key) \in DOMAIN stats_map_B
        /\ Tag0(cpu[c].key) \notin DOMAIN stats_map_A

====
